---- MODULE Spec2Model ----
(***************************************************************************)
(* Scheduling and dispatch engine of WABridge: the intent store            *)
(* (scheduled_messages), the scheduling service, the BullMQ job queue and  *)
(* its single worker, the rate limiter, the delivery listener and the      *)
(* connection manager.                                                     *)
(*                                                                         *)
(* Time is the wall clock in milliseconds (Date.getTime()).  The clock     *)
(* starts at the IST midnight that follows the epoch so that every value   *)
(* stays inside TLC's integers; the comparisons of the program come out    *)
(* the same for every later date.                                          *)
(***************************************************************************)
EXTENDS Integers, Sequences, FiniteSets, TLC

\* ------------------------------------------------------------------ bounds
MaxIntents == 2          \* ids of scheduled_messages rows
MaxCalls   == 2          \* ghost counters saturate here
MaxConnecting == 1       \* connect() calls suspended at one time
\* Spec: one intent under every interleaving of the service, the worker,
\* the connection and the clock.
MaxRows    == 1          \* scheduleMessage calls that insert a row
MaxApiCalls == 3         \* cancel, edit and retry calls that write a row
MaxCloses  == 1          \* connection close events
MaxTicks   == 2          \* clock advances
\* SpecCap: two intents and one recurring rule on an open socket.
MaxCapRows == 2          \* scheduleMessage calls that insert a row
MaxCapTicks == 3         \* clock advances
MaxFires   == 1          \* occurrences of the recurring rule
MaxRules   == 2          \* rows of recurring_rules
MaxRuleCalls == 3        \* rule service calls
MaxRuleFires == 2        \* scheduler firings under the rule service
MaxRuleTicks == 4        \* clock steps under the rule service
MaxOcc     == 2          \* largest maxOccurrences a request carries
MaxCronCalls == 2        \* rule service calls under the schedules
MaxSweeps  == 1          \* cleanup jobs
SweepRetention == 7      \* retention_days configured for the sweep
MaxConsumers == 2        \* WebSocket clients
MaxBroadcasts == 2       \* broadcast calls
MaxWsOpens == 3          \* WebSocket connections opened
MaxMediaRows == 2        \* scheduleMessage calls with media that insert a row
MaxMediaCalls == 2       \* editMessage calls with media
MaxEditRows == 1         \* intents scheduled next to the worker
MaxEditCalls == 2        \* editMessage calls next to the worker
MaxEditTicks == 2        \* clock steps next to the edits
MaxSignals == 2          \* SIGINT / SIGTERM deliveries
MaxShutTicks == 3        \* clock steps while shutting down
MaxKeys    == 2          \* master keys
MaxSalts   == 2          \* values of a random salt
MaxIvs     == 2          \* values of a random iv
MaxPlainLen == 2         \* code units of a plaintext
MaxEncrypts == 2         \* encrypt calls on one plaintext
ByteMod    == 4          \* values of a byte
MaxValues  == 2          \* values a key or the credentials may have
MaxStoreOps == 3         \* calls on the auth state adapters
MaxData    == 2          \* entries of one keys.set call
\* SpecBulk: bulk scheduling next to one single request.
MaxBulk    == 2          \* items of a bulk request
MaxBulkRows == 2         \* rows the requests may insert
MaxBulkTicks == 2        \* clock advances
\* SpecConn: the connection manager alone.
MaxConnCloses == 4       \* connection close events
MaxConnTicks == 4        \* clock advances
MaxDestroys == 2         \* destroy() calls
\* SpecAuth: the connection manager over a credential row it may not be
\* able to decrypt.
MaxAuthCloses == 2       \* connection close events
MaxAuthTicks == 3        \* clock advances
MaxTampers == 1          \* modifications of the stored ciphertext

\* --------------------------------------------------------- program constants
MsPerSec        == 1000        \* drizzle integer({mode:'timestamp'}): seconds
IstOffsetMs     == 19800000    \* 5.5 * 60 * 60 * 1000
DayMs           == 86400000    \* 24 * 60 * 60 * 1000
JobAttempts     == 3           \* defaultJobOptions.attempts
BackoffDelayMs  == 5000        \* defaultJobOptions.backoff.delay
LimiterMs       == 2000        \* worker limiter.duration
DailyCap        == 1           \* config.rate_limit.daily_cap (min 1)
DefaultMinDelay == 2000        \* config.rate_limit.min_delay_ms default
DefaultSendHour == 9           \* config.scheduling.default_send_hour default
DefaultMaxDelay == 8000        \* config.rate_limit.max_delay_ms default
WarnThresholdPct == 80         \* config.rate_limit.warn_threshold_pct default
RetentionDays == 90            \* config.scheduling.retention_days default
RandDen         == 2           \* Math.random() drawn from {0/2, 1/2}
FutureMs        == 3600000     \* a scheduledAt one hour ahead
SendMs          == 1500        \* a provider answer that takes 1.5 s
ReconnectBaseDelay == 1000     \* config.reconnect.base_delay_ms default
ReconnectMaxDelay  == 60000    \* config.reconnect.max_delay_ms default
MaxRetryMinutes == 30          \* config.reconnect.max_retry_minutes default
MsPerMinute     == 60000       \* max_retry_minutes * 60 * 1000

Null == -1

IntentIds  == 1..MaxIntents
ContactIds == {1, 2}           \* contact 1 exists; contact 2 is unknown
Clock0     == DayMs - IstOffsetMs

Statuses == {"pending", "sent", "delivered", "failed", "cancelled"}
Terminal == {"sent", "delivered", "failed", "cancelled"}

VARIABLES
    now,          \* wall clock, ms
    budget,       \* what the environment may still do (the bounds)
    cfg,          \* config.rate_limit: [min_delay_ms, max_delay_ms]
    msgs,         \* scheduled_messages: id -> row ("absent" = no row)
    jobs,         \* BullMQ jobs by jobId msg-<id>
    api,          \* the service call suspended at an await, if any
    worker,       \* the worker's position in the job it processes
    limiterUntil, \* worker limiter: no job starts before this instant
    connStatus,   \* ConnectionManager.status
    sock,         \* ConnectionManager.sock: "null" or the socket's state
    reconnectTimer,  \* ConnectionManager.reconnectTimer is set
    connecting,   \* connect() calls suspended at useSQLiteAuthState
    providerCalls, \* ghost: sock.sendMessage calls per intent
    failedEvents, \* ghost: message:failed broadcasts per intent
    sentLog,      \* ghost: sentAt (ms) written by the last two sent updates,
                  \*   and what the last checkAndWarn() broadcast
    rule,         \* recurring_rules rows
    rjob,         \* the recurring-send job of each rule's job scheduler
    mgr,          \* ConnectionManager: retry fields, timer, credentials
    bus,          \* WebSocket handler: clients, and what each has received
    proc,         \* the process: how far shutdown() has come
    vault,        \* a vault round: plaintext, keys, ciphertext, result
    store,        \* auth_state table, the adapters over it, the last get
    sched         \* job schedulers recurring-<rule id> of the queue

vars == <<now, budget, cfg, msgs, jobs, api, worker, limiterUntil,
          connStatus, sock, reconnectTimer, connecting,
          providerCalls, failedEvents, sentLog, rule, rjob, mgr, bus, proc, vault, store, sched>>

\* ------------------------------------------------------------ time helpers

\* A Date written to an integer({mode:'timestamp'}) column: whole seconds.
ToDb(ms) == ms \div MsPerSec

\* The Date read back from such a column.
FromDb(sec) == sec * MsPerSec

\* getTodayIST(): start of the current IST day, as a UTC instant in ms.
getTodayIST(t) ==
    LET istMs == t + IstOffsetMs
        istMidnight == istMs - (istMs % DayMs)
    IN  istMidnight - IstOffsetMs

getNextMidnightIST(t) == getTodayIST(t) + DayMs

\* ------------------------------------------------------------ rate limiter

SentOrDelivered(m) == m.status \in {"sent", "delivered"}

\* getSentTodayCount(): sent_at >= todayStartMs AND status IN (sent, delivered).
\* sent_at is the stored column (seconds); todayStartMs is bound as is (ms).
getSentTodayCount(rows, t) ==
    LET todayStartMs == getTodayIST(t)
    IN  Cardinality({i \in IntentIds :
            /\ rows[i].status # "absent"
            /\ rows[i].sentAt # Null
            /\ rows[i].sentAt >= todayStartMs
            /\ SentOrDelivered(rows[i])})

\* canSend().allowed
canSend(rows, t) == getSentTodayCount(rows, t) < DailyCap

\* Math.floor(dailyCap * warnThresholdPct / 100)
warnThreshold == (DailyCap * cfg.warn_threshold_pct) \div 100

\* checkAndWarn(): the event it broadcasts, if any.
checkAndWarn(rows, t) ==
    LET sentToday == getSentTodayCount(rows, t)
    IN  IF sentToday >= DailyCap THEN "reached"
        ELSE IF sentToday >= warnThreshold THEN "warning"
        ELSE "none"

\* The log after a checkAndWarn() call at t over the rows: its event, and
\* whether that is a warning in an IST day that has had one already.
Warned(log, rows, t) ==
    LET ev == checkAndWarn(rows, t)
    IN  [log EXCEPT !.event = ev,
                    !.repeat = (ev = "warning" /\ log.warnDay = getTodayIST(t)),
                    !.warnDay = IF ev = "warning" THEN getTodayIST(t) ELSE @]

\* ------------------------------------------------------------------ rows

NoRow == [status |-> "absent", scheduledAt |-> Null, sentAt |-> Null,
          attempts |-> 0, wamid |-> 0, failedAt |-> Null,
          failureReason |-> "none", deliveredAt |-> Null,
          mediaUrl |-> "null", mediaType |-> "null",
          recurringRuleId |-> 0]

NoJob == [state |-> "none", attemptsMade |-> 0, runAt |-> 0]

\* warn: the call goes on to checkAndWarn() once the job is added.
\* req, idx, at, failed and scheduled belong to bulkScheduleMessages: the
\* items, the index of the next one, the request's instant, and the
\* response so far (kept as the response once the call has returned).
NoApi == [op |-> "none", id |-> 0, delay |-> 0, warn |-> FALSE,
          req |-> <<>>, idx |-> 0, at |-> 0, failed |-> {}, scheduled |-> {}]

Idle == [pc |-> "idle", name |-> "send", id |-> 0, attempts |-> 0,
         wakeAt |-> 0, reason |-> "none", live |-> FALSE,
         rule |-> 0, t0 |-> 0, occurrenceCount |-> 0,
         mediaUrl |-> "null", mediaType |-> "null"]

\* ------------------------------------------------------------------- cron

\* A field of a cron expression: a number, '*' or 'L'.
Num(n) == [k |-> "num", v |-> n]
Star == [k |-> "*", v |-> 0]
Last == [k |-> "L", v |-> 0]

\* CronParams; Null is a field the caller leaves undefined.
NoParams == [sendHour |-> Null, sendMinute |-> Null, dayOfWeek |-> Null,
             dayOfMonth |-> Null, month |-> Null]

\* a ?? b
Coalesce(a, b) == IF a = Null THEN b ELSE a

\* A builder that keeps the requested day of the month as it is.
buildCronExpressionNoLast(type, params, defaultSendHour) ==
    LET hour == Coalesce(params.sendHour, defaultSendHour)
        minute == Coalesce(params.sendMinute, 0)
    IN  IF type \in {"daily", "weekly"}
        THEN <<Num(0), Num(minute), Num(hour), Star, Star,
               IF type = "daily" THEN Star
               ELSE Num(Coalesce(params.dayOfWeek, 1))>>
        ELSE <<Num(0), Num(minute), Num(hour),
               Num(Coalesce(params.dayOfMonth, 1)),
               IF type = "monthly" THEN Star
               ELSE Num(Coalesce(params.month, 1)), Star>>

\* buildCronExpression(type, params, defaultSendHour): the fields seconds,
\* minute, hour, dayOfMonth, month, dayOfWeek of the string it returns
\* ('custom', which has no cron expression, is left out).
buildCronExpression(type, params, defaultSendHour) ==
    LET hour == Coalesce(params.sendHour, defaultSendHour)
        minute == Coalesce(params.sendMinute, 0)
    IN  CASE type = "daily" ->
               <<Num(0), Num(minute), Num(hour), Star, Star, Star>>
          [] type = "weekly" ->
               <<Num(0), Num(minute), Num(hour), Star, Star,
                 Num(Coalesce(params.dayOfWeek, 1))>>
          [] type = "monthly" ->
               LET day == IF Coalesce(params.dayOfMonth, 1) > 28 THEN Last
                          ELSE Num(Coalesce(params.dayOfMonth, 1))
               IN  <<Num(0), Num(minute), Num(hour), day, Star, Star>>
          [] type \in {"yearly", "birthday"} ->
               <<Num(0), Num(minute), Num(hour),
                 Num(Coalesce(params.dayOfMonth, 1)),
                 Num(Coalesce(params.month, 1)), Star>>

\* recurring_rules: maxOccurrences 0 stands for NULL.
RuleIds == 1..MaxRules
NoRule == [present |-> FALSE, enabled |-> FALSE, contactId |-> 1,
           type |-> "daily", maxOccurrences |-> 0, occurrenceCount |-> 0,
           cronExpression |-> <<>>]

\* The queue's job schedulers: queue.upsertJobScheduler('recurring-<r>',
\* {pattern}, ...) and queue.removeJobScheduler('recurring-<r>').
NoSched == [registered |-> FALSE, pattern |-> <<>>]
upsertJobScheduler(s, r, pattern) ==
    [s EXCEPT ![r] = [registered |-> TRUE, pattern |-> pattern]]
removeJobScheduler(s, r) == [s EXCEPT ![r] = NoSched]

\* At the start every enabled rule has its scheduler, registered when the
\* rule was created.
InitSched ==
    sched = [r \in RuleIds |->
                IF rule[r].present /\ rule[r].enabled
                THEN [registered |-> TRUE, pattern |-> rule[r].cronExpression]
                ELSE NoSched]

Max(a, b) == IF a >= b THEN a ELSE b
Min(a, b) == IF a <= b THEN a ELSE b
Bump(n) == Min(n + 1, MaxCalls)

FreeIds == {i \in IntentIds : msgs[i].status = "absent"}
NewId == CHOOSE i \in FreeIds : \A j \in FreeIds : i <= j

\* ------------------------------------------------------------- event bus

Consumers == 1..MaxConsumers

\* clients in insertion order (a Set iterates in that order); failing: the
\* clients whose send throws; inbox: messages each consumer has received;
\* delivered, removed, raised: ghosts of the latest broadcast.
NoBus == [clients |-> <<>>, failing |-> {}, inbox |-> [w \in Consumers |-> 0],
          opens |-> 0, n |-> 0, delivered |-> {}, removed |-> {},
          raised |-> FALSE]

Without(ws, w) == SelectSeq(ws, LAMBDA x : x # w)
Members(ws) == {ws[k] : k \in 1..Len(ws)}

\* The loop without its try/catch: the first throw ends it in the producer.
RECURSIVE sendAllNoCatch(_, _)
sendAllNoCatch(b, ws) ==
    IF ws = <<>> THEN b
    ELSE LET w == Head(ws)
         IN  IF w \in b.failing
             THEN [b EXCEPT !.raised = TRUE]
             ELSE sendAllNoCatch([b EXCEPT !.inbox[w] = @ + 1,
                                           !.delivered = @ \cup {w}],
                                 Tail(ws))

\* for (const ws of clients) { try { ws.send(data) } catch { clients.delete(ws) } }
RECURSIVE sendAll(_, _)
sendAll(b, ws) ==
    IF ws = <<>> THEN b
    ELSE LET w == Head(ws)
         IN  IF w \in b.failing
             THEN sendAll([b EXCEPT !.clients = Without(@, w),
                                    !.removed = @ \cup {w}], Tail(ws))
             ELSE sendAll([b EXCEPT !.inbox[w] = @ + 1,
                                    !.delivered = @ \cup {w}], Tail(ws))

OthersUnchanged ==
    UNCHANGED <<now, budget, cfg, msgs, jobs, api, worker, limiterUntil,
                connStatus, sock, reconnectTimer, connecting, providerCalls,
                failedEvents, sentLog, rule, rjob, mgr>>

\* broadcast(message)
broadcast ==
    /\ bus.n < MaxBroadcasts
    /\ bus' = sendAll([bus EXCEPT !.n = @ + 1, !.delivered = {},
                                  !.removed = {}, !.raised = FALSE],
                      bus.clients)
    /\ OthersUnchanged /\ UNCHANGED <<proc, vault, store, sched>>

\* onOpen: a client with a wrong key is closed; any other is added and sent
\* the current health.
WsOpen(w, keyOk) ==
    /\ bus.opens < MaxWsOpens
    /\ w \notin Members(bus.clients)
    /\ bus' = IF keyOk
              THEN [bus EXCEPT !.opens = @ + 1,
                               !.clients = Append(@, w),
                               !.failing = @ \ {w},
                               !.inbox[w] = @ + 1]
              ELSE [bus EXCEPT !.opens = @ + 1]
    /\ OthersUnchanged /\ UNCHANGED <<proc, vault, store, sched>>

\* onClose
WsClose(w) ==
    /\ w \in Members(bus.clients)
    /\ bus' = [bus EXCEPT !.clients = Without(@, w)]
    /\ OthersUnchanged /\ UNCHANGED <<proc, vault, store, sched>>

\* The client's socket reaches a state in which send throws.
WsBreak(w) ==
    /\ w \in Members(bus.clients)
    /\ w \notin bus.failing
    /\ bus' = [bus EXCEPT !.failing = @ \cup {w}]
    /\ OthersUnchanged /\ UNCHANGED <<proc, vault, store, sched>>

\* ------------------------------------------------------------------ vault

MasterKeys == 1..MaxKeys
Salts == 1..MaxSalts
Ivs == 1..MaxIvs

\* A string is a sequence of UTF-16 code units: an ordinary character, a
\* high or a low surrogate, or U+FFFD.
CodeUnits == {"a", "hi", "lo"}
RECURSIVE SeqsUpTo(_, _)
SeqsUpTo(S, n) ==
    IF n = 0 THEN {<<>>}
    ELSE LET shorter == SeqsUpTo(S, n - 1)
         IN  shorter \cup {Append(x, c) : x \in shorter, c \in S}
Plaintexts == SeqsUpTo(CodeUnits, MaxPlainLen)

\* cipher.update(plaintext, 'utf8'): a surrogate pair is one code point
\* (bytes 1 1), a surrogate on its own is written as U+FFFD (byte 2).
RECURSIVE toUtf8(_)
toUtf8(x) ==
    IF x = <<>> THEN <<>>
    ELSE IF Head(x) = "hi" /\ Len(x) >= 2 /\ x[2] = "lo"
    THEN <<1, 1>> \o toUtf8(SubSeq(x, 3, Len(x)))
    ELSE IF Head(x) = "a" THEN <<0>> \o toUtf8(Tail(x))
    ELSE <<2>> \o toUtf8(Tail(x))

\* Buffer.toString('utf8'): bytes that are no character decode to U+FFFD.
RECURSIVE fromUtf8(_)
fromUtf8(b) ==
    IF b = <<>> THEN <<>>
    ELSE IF Head(b) = 1 /\ Len(b) >= 2 /\ b[2] = 1
    THEN <<"hi", "lo">> \o fromUtf8(SubSeq(b, 3, Len(b)))
    ELSE IF Head(b) = 0 THEN <<"a">> \o fromUtf8(Tail(b))
    ELSE <<"fffd">> \o fromUtf8(Tail(b))

\* scryptSync(password, salt, 32): a key per (password, salt).
deriveKey(masterKey, salt) == masterKey * (MaxSalts + 1) + salt

\* AES-GCM: the counter-mode key stream, and the tag over key, iv and data
\* (no two inputs share a tag).
KeyStream(key, iv, i) == (key + iv + i) % ByteMod
Cipher(key, iv, bytes) ==
    [i \in 1..Len(bytes) |-> (bytes[i] + KeyStream(key, iv, i)) % ByteMod]
Decipher(key, iv, data) ==
    [i \in 1..Len(data) |->
        (data[i] + ByteMod - KeyStream(key, iv, i)) % ByteMod]
AuthTag(key, iv, data) == [key |-> key, iv |-> iv, data |-> data, flip |-> 0]

\* encrypt(plaintext, masterKey) with the salt and iv randomBytes returned:
\* the four base64 parts joined by ':' (base64 has no ':'; each part decodes
\* to the bytes it was made from).
encrypt(plaintext, masterKey, salt, iv) ==
    LET key == deriveKey(masterKey, salt)
        encrypted == Cipher(key, iv, toUtf8(plaintext))
    IN  <<salt, iv, AuthTag(key, iv, encrypted), encrypted>>

\* decrypt without the check of the tag in decipher.final().
decryptNoTag(encryptedStr, masterKey) ==
    LET key == deriveKey(masterKey, encryptedStr[1])
    IN  [ok |-> TRUE,
         text |-> fromUtf8(Decipher(key, encryptedStr[2], encryptedStr[4]))]

\* decrypt(encryptedStr, masterKey): split on ':', derive the key from the
\* salt; decipher.final() throws unless the tag matches.
decrypt(encryptedStr, masterKey) ==
    LET salt == encryptedStr[1]
        iv == encryptedStr[2]
        tag == encryptedStr[3]
        encrypted == encryptedStr[4]
        key == deriveKey(masterKey, salt)
    IN  IF tag # AuthTag(key, iv, encrypted)
        THEN [ok |-> FALSE, text |-> <<>>]
        ELSE [ok |-> TRUE, text |-> fromUtf8(Decipher(key, iv, encrypted))]

\* What is decrypted: the string as it is, with another key, or with a byte
\* of its tag or of its ciphertext part changed.
Hows == {"same", "otherKey", "tag", "data"}
Modified(c, how) ==
    CASE how = "tag"  -> [c EXCEPT ![3].flip = 1]
      [] how = "data" -> [c EXCEPT ![4] =
                            IF @ = <<>> THEN <<0>>
                            ELSE [@ EXCEPT ![1] = (@ + 1) % ByteMod]]
      [] OTHER -> c

\* x, k: the inputs; cts: the strings encrypt returned; used: the (salt, iv)
\* randomBytes gave; how, out: the decrypt made and its result.
NoVault == [x |-> <<>>, k |-> 1, cts |-> <<>>, used |-> {},
            how |-> "none", out |-> [ok |-> FALSE, text |-> <<>>]]

\* encrypt(x, k); randomBytes does not repeat itself.
VaultEncrypt(salt, iv) ==
    /\ Len(vault.cts) < MaxEncrypts
    /\ vault.how = "none"
    /\ <<salt, iv>> \notin vault.used
    /\ vault' = [vault EXCEPT
                    !.cts = Append(@, encrypt(vault.x, vault.k, salt, iv)),
                    !.used = @ \cup {<<salt, iv>>}]
    /\ OthersUnchanged /\ UNCHANGED <<bus, proc, store, sched>>

\* decrypt of the first string, as it is or changed, with k or another key.
VaultDecrypt(how, k2) ==
    /\ vault.cts # <<>>
    /\ vault.how = "none"
    /\ (how = "otherKey") = (k2 # vault.k)
    /\ vault' = [vault EXCEPT
                    !.how = how,
                    !.out = decrypt(Modified(vault.cts[1], how), k2)]
    /\ OthersUnchanged /\ UNCHANGED <<bus, proc, store, sched>>

\* ------------------------------------------------------------ job queue

\* ------------------------------------------------------------- auth state

\* A string is written as the sequence of its parts between '-'.
\* Two categories of SignalDataTypeMap, and the ids the keys are asked for.
Categories == {<<"sender", "key">>, <<"sender", "key", "memory">>}
KeyIds == {<<"x">>, <<"memory", "x">>}
Entries == Categories \X KeyIds

\* `${category}-${id}`, the key column of auth_state; 'creds' for the
\* credentials.
StoreKey(category, id) == category \o id
CredsKey == <<"creds">>
StoreKeys == {StoreKey(e[1], e[2]) : e \in Entries} \cup {CredsKey}

\* Values are numbered from 1; 0 is null (for a row: no row; for the
\* credentials: the ones initAuthCreds() makes anew).
Values == 1..MaxValues

\* JSON.stringify(value, BufferJSON.replacer): a text per value (the last
\* value holds a character outside the BMP), and JSON.parse with the
\* reviver, which gives the value back from its text and throws (0) on
\* any other text.
stringify(v) == IF v = MaxValues THEN <<"hi", "lo">> ELSE [i \in 1..v |-> "a"]
parse(text) ==
    IF \E v \in Values : stringify(v) = text
    THEN CHOOSE v \in Values : stringify(v) = text
    ELSE 0

\* The (salt, iv) pairs randomBytes gives to the encryptions of a call.
Draws == {<<1, 1>>, <<MaxSalts, MaxIvs>>}

\* table: auth_state (key -> value, <<>> for no row); creds: state.creds
\* of the first adapter; restored: state.creds of the adapter made last
\* (made: whether one was); got: the last keys.get and what it returned;
\* latest, saved: ghosts, the value of the latest set per (category, id)
\* and the credentials of the latest saveCreds; op, n: the last call and
\* the number of calls.
NoStore == [table |-> [k \in StoreKeys |-> <<>>],
            masterKey |-> 1, creds |-> 1, restored |-> 0, made |-> FALSE,
            got |-> [category |-> <<>>, ids |-> {}, data |-> <<>>],
            latest |-> [e \in Entries |-> 0], saved |-> 0,
            op |-> "none", n |-> 0]

StoreUnchanged == OthersUnchanged /\ UNCHANGED <<bus, proc, vault, sched>>

\* The loop of keys.set over data, an entry after the other in one
\* transaction: a value is encrypted and upserted, null deletes the row.
RECURSIVE setLoop(_, _, _)
setLoop(st, data, rnd) ==
    IF data = <<>> THEN st
    ELSE LET d == Head(data)
             key == StoreKey(d.category, d.id)
             encrypted == encrypt(stringify(d.value), st.masterKey,
                                  Head(rnd)[1], Head(rnd)[2])
             written == IF d.value # 0 THEN encrypted ELSE <<>>
         IN  setLoop([st EXCEPT !.table[key] = written,
                                !.latest[<<d.category, d.id>>] = d.value],
                     Tail(data), Tail(rnd))

\* The data objects of keys.set: up to MaxData entries, no (category, id)
\* twice.
DataSets ==
    LET One == {[category |-> e[1], id |-> e[2], value |-> v] :
                    e \in Entries, v \in 0..MaxValues}
    IN  {d \in SeqsUpTo(One, MaxData) :
            /\ d # <<>>
            /\ \A i, j \in 1..Len(d) :
                   i # j => <<d[i].category, d[i].id>> #
                            <<d[j].category, d[j].id>>}

\* state.keys.set(data)
KeysSet(data, rnd) ==
    /\ store.n < MaxStoreOps
    /\ store' = [setLoop(store, data, rnd) EXCEPT !.op = "set", !.n = @ + 1]
    /\ StoreUnchanged

\* state.keys.get(type, ids): the rows found, decrypted and parsed.
KeysGet(type, ids) ==
    /\ store.n < MaxStoreOps
    /\ LET found == {i \in ids : store.table[StoreKey(type, i)] # <<>>}
           value(i) == parse(decrypt(store.table[StoreKey(type, i)],
                                     store.masterKey).text)
       IN  store' = [store EXCEPT
                        !.got = [category |-> type, ids |-> ids,
                                 data |-> [i \in found |-> value(i)]],
                        !.op = "get", !.n = @ + 1]
    /\ StoreUnchanged

\* The library changes state.creds in place before it emits creds.update.
CredsChange(v) ==
    /\ store.n < MaxStoreOps
    /\ v # store.creds
    /\ store' = [store EXCEPT !.creds = v, !.op = "change", !.n = @ + 1]
    /\ StoreUnchanged

\* saveCreds(): state.creds is encrypted and upserted under 'creds'.
saveCreds(rnd) ==
    /\ store.n < MaxStoreOps
    /\ store' = [store EXCEPT
                    !.table[CredsKey] =
                        encrypt(stringify(store.creds), store.masterKey,
                                rnd[1], rnd[2]),
                    !.saved = store.creds,
                    !.op = "save", !.n = @ + 1]
    /\ StoreUnchanged

\* useSQLiteAuthState(db, masterKey) once more over the same table:
\* readCreds() gives the stored row decrypted and parsed, or initAuthCreds().
useSQLiteAuthState ==
    /\ store.n < MaxStoreOps
    /\ LET row == store.table[CredsKey]
       IN  store' = [store EXCEPT
                        !.restored =
                            IF row # <<>>
                            THEN parse(decrypt(row, store.masterKey).text)
                            ELSE 0,
                        !.made = TRUE,
                        !.op = "restore", !.n = @ + 1]
    /\ StoreUnchanged


\* queue.add('send', ..., {delay, jobId: msg-<id>}): a job id that is still
\* in the queue, in whatever state, makes the add a no-op.
scheduleOneTimeJob(q, id, delay) ==
    IF q[id].state = "none"
    THEN [q EXCEPT ![id] = [state |-> "delayed", attemptsMade |-> 0,
                            runAt |-> now + Max(0, delay)]]
    ELSE q

\* cancelJob: getJob, then job.remove(); an active job is locked and the
\* remove throws.
JobRemovable(q, id) == q[id].state \notin {"none", "active"}

cancelJob(q, id) ==
    IF JobRemovable(q, id) THEN [q EXCEPT ![id] = NoJob] ELSE q

\* ------------------------------------------------------ scheduling service

SchedWhen == {"absent", "past", "future"}

\* The instant a request made at t asks for.
SendAtFrom(when, t) ==
    CASE when = "absent" -> t
      [] when = "past"   -> t - MsPerSec
      [] when = "future" -> t + FutureMs

SendAt(when) == SendAtFrom(when, now)

isImmediate(when) == when = "absent" \/ SendAt(when) <= now

\* A request field that is given and not null.
Given(v) == v \notin {"undefined", "null"}

\* value ?? null
OrNull(v) == IF v = "undefined" THEN "null" ELSE v

\* The mediaUrl and mediaType a request may carry.
MediaUrls == {"undefined", "null", "url"}
MediaTypes == {"undefined", "null", "image"}

\* scheduleMessageSchema: both fields optional (never null);
\* refine(!d.mediaUrl || d.mediaType).
scheduleMessageSchema(mediaUrl, mediaType) ==
    /\ mediaUrl # "null"
    /\ mediaType # "null"
    /\ (~Given(mediaUrl) \/ Given(mediaType))

\* editMessageSchema: at least one field, and
\* refine(!(d.mediaUrl && !d.mediaType)).
editMessageSchema(when, mediaUrl, mediaType) ==
    /\ (when # "none" \/ mediaUrl # "undefined" \/ mediaType # "undefined")
    /\ ~(Given(mediaUrl) /\ ~Given(mediaType))

\* scheduleMessage up to its await on scheduleOneTimeJob.
scheduleMessageMedia(c, when, mediaUrl, mediaType) ==
    /\ api.op = "none"
    /\ IF \/ c # 1                                    \* 'Contact not found'
          \/ (isImmediate(when) /\ ~canSend(msgs, now)) \* 429
       THEN UNCHANGED <<msgs, api, budget>>
       ELSE /\ FreeIds # {}
            /\ budget.rows > 0
            /\ budget' = [budget EXCEPT !.rows = @ - 1]
            /\ msgs' = [msgs EXCEPT ![NewId] =
                   [NoRow EXCEPT !.status = "pending",
                                 !.scheduledAt = ToDb(SendAt(when)),
                                 !.mediaUrl = OrNull(mediaUrl),
                                 !.mediaType = OrNull(mediaType)]]
            /\ api' = [NoApi EXCEPT !.op = "add", !.id = NewId,
                                    !.warn = TRUE,
                                    !.delay = Max(0, SendAt(when) - now)]
    /\ UNCHANGED <<now, cfg, jobs, worker, limiterUntil,
                   connStatus, sock, reconnectTimer, connecting,
                   providerCalls, failedEvents, sentLog, rule, rjob,
                   mgr, bus, proc, vault, store, sched>>

\* A request without media.
scheduleMessage(c, when) ==
    scheduleMessageMedia(c, when, "undefined", "undefined")

\* cancelMessage up to its await on cancelJob: the conditional update.
cancelMessage(i) ==
    /\ api.op = "none"
    /\ IF msgs[i].status = "pending"
       THEN /\ budget.calls > 0
            /\ budget' = [budget EXCEPT !.calls = @ - 1]
            /\ msgs' = [msgs EXCEPT ![i].status = "cancelled"]
            /\ api' = [NoApi EXCEPT !.op = "remove", !.id = i]
       ELSE UNCHANGED <<msgs, api, budget>>
    /\ UNCHANGED <<now, cfg, jobs, worker, limiterUntil,
                   connStatus, sock, reconnectTimer, connecting,
                   providerCalls, failedEvents, sentLog, rule, rjob,
                   mgr, bus, proc, vault, store, sched>>

EditWhen == {"none", "past", "future"}

\* editMessage up to its await on rescheduleJob: select, check, update
\* with the fields the request carries.
editMessagePatch(i, when, mediaUrl, mediaType) ==
    /\ api.op = "none"
    /\ IF \/ msgs[i].status # "pending"
          \/ (when = "none" /\ mediaUrl = "undefined"
                            /\ mediaType = "undefined")
       THEN UNCHANGED <<msgs, api, budget>>
       ELSE /\ budget.calls > 0
            /\ budget' = [budget EXCEPT !.calls = @ - 1]
            /\ msgs' = [msgs EXCEPT
                   ![i].scheduledAt =
                       IF when = "none" THEN @ ELSE ToDb(SendAt(when)),
                   ![i].mediaUrl =
                       IF mediaUrl = "undefined" THEN @ ELSE mediaUrl,
                   ![i].mediaType =
                       IF mediaType = "undefined" THEN @ ELSE mediaType]
            /\ api' = IF when = "none" THEN api
                      ELSE [NoApi EXCEPT !.op = "reschedule", !.id = i,
                                         !.delay = Max(0, SendAt(when) - now)]
    /\ UNCHANGED <<now, cfg, jobs, worker, limiterUntil,
                   connStatus, sock, reconnectTimer, connecting,
                   providerCalls, failedEvents, sentLog, rule, rjob,
                   mgr, bus, proc, vault, store, sched>>

\* A request that carries at most scheduledAt.
editMessage(i, when) == editMessagePatch(i, when, "undefined", "undefined")

\* retryMessage up to its await on scheduleOneTimeJob.
retryMessage(i) ==
    /\ api.op = "none"
    /\ IF msgs[i].status = "failed"
       THEN /\ budget.calls > 0
            /\ budget' = [budget EXCEPT !.calls = @ - 1]
            /\ msgs' = [msgs EXCEPT ![i].status = "pending",
                                    ![i].attempts = 0,
                                    ![i].failedAt = Null,
                                    ![i].failureReason = "none",
                                    ![i].scheduledAt = ToDb(now)]
            /\ api' = [NoApi EXCEPT !.op = "add", !.id = i]
       ELSE UNCHANGED <<msgs, api, budget>>
    /\ UNCHANGED <<now, cfg, jobs, worker, limiterUntil,
                   connStatus, sock, reconnectTimer, connecting,
                   providerCalls, failedEvents, sentLog, rule, rjob,
                   mgr, bus, proc, vault, store, sched>>

\* The suspended service call resumes: the queue operation takes effect.
ApiResume ==
    /\ api.op \in {"add", "remove", "reschedule"}
    /\ CASE api.op = "add" ->
              /\ jobs' = scheduleOneTimeJob(jobs, api.id, api.delay)
              /\ api' = NoApi
              /\ sentLog' = IF api.warn THEN Warned(sentLog, msgs, now)
                            ELSE sentLog
         [] api.op = "remove" ->
              /\ jobs' = cancelJob(jobs, api.id)
              /\ api' = NoApi
              /\ UNCHANGED sentLog
         [] api.op = "reschedule" ->
              /\ jobs' = cancelJob(jobs, api.id)
              /\ api' = IF jobs[api.id].state = "active"
                        THEN NoApi
                        ELSE [api EXCEPT !.op = "add"]
              /\ UNCHANGED sentLog
    /\ UNCHANGED <<now, budget, cfg, msgs, worker,
                   limiterUntil, connStatus, sock, reconnectTimer,
                   connecting, providerCalls, failedEvents, rule, rjob,
                   mgr, bus, proc, vault, store, sched>>

\* ------------------------------------------------------------------ bulk

BulkItem == [c : ContactIds, when : SchedWhen]
BulkRequests == UNION {[1..n -> BulkItem] : n \in 1..MaxBulk}

FreeIn(rows) == {i \in IntentIds : rows[i].status = "absent"}
NewIn(rows) == CHOOSE i \in FreeIn(rows) : \A j \in FreeIn(rows) : i <= j

\* The for loop of bulkScheduleMessages from item b.idx on, up to its next
\* await on scheduleOneTimeJob or to its end: the rows and the call.
RECURSIVE BulkLoop(_, _)
BulkLoop(rows, b) ==
    IF b.idx > Len(b.req)
    THEN [rows |-> rows, api |-> [b EXCEPT !.op = "none", !.id = 0,
                                           !.delay = 0]]
    ELSE LET item == b.req[b.idx]
             sendAt == SendAtFrom(item.when, b.at)
             immediate == item.when = "absent" \/ sendAt <= b.at
         IN  IF item.c # 1 \/ (immediate /\ ~canSend(rows, now))
             THEN BulkLoop(rows, [b EXCEPT !.failed = @ \cup {b.idx},
                                           !.idx = @ + 1])
             ELSE [rows |-> [rows EXCEPT ![NewIn(rows)] =
                        [NoRow EXCEPT !.status = "pending",
                                      !.scheduledAt = ToDb(sendAt)]],
                   api |-> [b EXCEPT !.id = NewIn(rows),
                                     !.delay = Max(0, sendAt - now),
                                     !.idx = @ + 1]]

ImmediateCount(items) ==
    Cardinality({i \in 1..Len(items) : isImmediate(items[i].when)})

\* bulkScheduleMessages up to its first await (or to its throw or return).
bulkScheduleMessages(items) ==
    /\ api.op = "none"
    /\ Cardinality(FreeIds) >= Len(items)
    /\ budget.rows >= Len(items)
    /\ LET remaining == DailyCap - getSentTodayCount(msgs, now)
       IN  IF /\ ImmediateCount(items) > 0
              /\ (~canSend(msgs, now) \/ remaining < ImmediateCount(items))
           THEN UNCHANGED <<msgs, api, budget, sentLog>>         \* 429
           ELSE LET r == BulkLoop(msgs, [NoApi EXCEPT !.op = "bulk",
                                                      !.req = items,
                                                      !.idx = 1,
                                                      !.at = now])
                IN  /\ msgs' = r.rows
                    /\ api' = r.api
                    /\ budget' = [budget EXCEPT !.rows = @ - Len(items)]
                    /\ sentLog' = IF r.api.op = "none"
                                  THEN Warned(sentLog, r.rows, now)
                                  ELSE sentLog
    /\ UNCHANGED <<now, cfg, jobs, worker, limiterUntil,
                   connStatus, sock, reconnectTimer, connecting,
                   providerCalls, failedEvents, rule, rjob,
                   mgr, bus, proc, vault, store, sched>>

\* bulkScheduleMessages resumes after scheduleOneTimeJob: the item counts
\* as scheduled and the loop goes on.
BulkResume ==
    /\ api.op = "bulk"
    /\ jobs' = scheduleOneTimeJob(jobs, api.id, api.delay)
    /\ LET r == BulkLoop(msgs, [api EXCEPT !.scheduled = @ \cup {api.idx - 1}])
       IN  /\ msgs' = r.rows
           /\ api' = r.api
           /\ sentLog' = IF r.api.op = "none"
                         THEN Warned(sentLog, r.rows, now)
                         ELSE sentLog
    /\ UNCHANGED <<now, budget, cfg, worker, limiterUntil,
                   connStatus, sock, reconnectTimer, connecting,
                   providerCalls, failedEvents, rule, rjob,
                   mgr, bus, proc, vault, store, sched>>

\* ---------------------------------------------------- connection manager

DisconnectCodes == {401, 403, 440, 515, 428}

\* Math.random() * 2 - 1, in tenths, times 0.2: the jitter added to 1.
Jitter == {-2, 0, 2}

\* Fields of the manager next to status, sock and reconnectTimer (lastCode
\* is lastDisconnect.code, 0 for null), the auth_state table and the
\* credentials of the socket.  Credentials are
\* named by the initAuthCreds() call they descend from; 0 is none.
\* masterKey is the key of this process, authKey the key the stored row
\* was encrypted under, tampered whether its ciphertext was modified
\* since.  caller is the caller of the connect() under way and threw
\* whether its useSQLiteAuthState threw; exited is process.exit.
\* sockLive: the socket this.sock refers to was made and has not ended;
\* stray: sockets that were still live when this.sock was given another.
NoMgr == [reconnectAttempt |-> 0, retryStartedAt |-> Null,
          timerAt |-> 0, delay |-> 0,
          auth |-> 0, creds |-> 0, lastCreds |-> 0, deleted |-> {},
          listener |-> FALSE, destroyed |-> FALSE, lastCode |-> 0,
          masterKey |-> 1, authKey |-> 1, tampered |-> FALSE,
          caller |-> "none", threw |-> FALSE, exited |-> FALSE,
          sockLive |-> FALSE, stray |-> 0]

\* ConnectionManager.getSocket(): return this.sock
getSocket == sock

\* A socket that ends takes the send awaiting on it down with it.
EndSocket(w) == IF w.pc = "sending" THEN [w EXCEPT !.live = FALSE] ELSE w

ConnUnchanged ==
    UNCHANGED <<now, cfg, msgs, jobs, api, limiterUntil,
                providerCalls, failedEvents, sentLog, rule, rjob,
                bus, proc, vault, store, sched>>

\* calculateBackoff without the cap at max_delay_ms.
calculateBackoffNoCap(attempt, j) ==
    LET exponentialDelay == cfg.reconnect.base_delay_ms * 2^attempt
    IN  (exponentialDelay * (10 + j)) \div 10

\* calculateBackoff(attempt, config) with jitter factor 1 + j * 0.1
calculateBackoff(attempt, j) ==
    LET exponentialDelay ==
            Min(cfg.reconnect.base_delay_ms * 2^attempt,
                cfg.reconnect.max_delay_ms)
    IN  (exponentialDelay * (10 + j)) \div 10

\* this.maxRetryMs = config.reconnect.max_retry_minutes * 60 * 1000
maxRetryMs == cfg.reconnect.max_retry_minutes * MsPerMinute

\* A retry window that never ends.
isRetryWindowNeverExhausted(retryStartedAt, t) == FALSE

\* isRetryWindowExhausted(retryStartedAt, maxRetryMs) at instant t
isRetryWindowExhausted(retryStartedAt, t) == t - retryStartedAt > maxRetryMs

\* decryptValue(row.value) throws: AES-GCM rejects a ciphertext made
\* under another master key or modified since.
DecryptFails(m) == m.authKey # m.masterKey \/ m.tampered

\* readCreds() of useSQLiteAuthState: the stored row decrypted, or
\* initAuthCreds(); a decryption that throws leaves no credentials.
readCreds(m) ==
    IF m.auth # 0
    THEN IF DecryptFails(m) THEN [m EXCEPT !.creds = 0, !.threw = TRUE]
         ELSE [m EXCEPT !.creds = m.auth]
    ELSE [m EXCEPT !.creds = m.lastCreds + 1, !.lastCreds = @ + 1]

\* cleanupSocket that drops the socket without sock.end().
cleanupSocketNoEnd(m) == [m EXCEPT !.listener = FALSE]

\* cleanupSocket(): the timer is cleared, the socket ended and dropped.
cleanupSocket(m) == [m EXCEPT !.listener = FALSE, !.sockLive = FALSE]

\* connect() up to its await: cleanupSocket(), then useSQLiteAuthState
\* reads the credentials; m is the manager record as the caller left it.
connect(m) ==
    /\ reconnectTimer' = FALSE
    /\ sock' = "null"
    /\ worker' = EndSocket(worker)
    /\ connecting' = connecting + 1
    /\ mgr' = readCreds(cleanupSocket(m))

\* connect() resumes after useSQLiteAuthState: makeWASocket.
ConnectResume ==
    /\ connecting > 0
    /\ ~mgr.threw
    /\ connecting' = connecting - 1
    /\ sock' = "opening"
    /\ worker' = EndSocket(worker)
    /\ mgr' = [mgr EXCEPT !.caller = "none",
                          !.stray = IF mgr.sockLive THEN @ + 1 ELSE @,
                          !.sockLive = TRUE]
    /\ UNCHANGED <<connStatus, reconnectTimer, budget>>
    /\ ConnUnchanged

\* handleConnectionUpdate({qr})
ConnQr ==
    /\ sock = "opening"
    /\ connStatus' = "pairing"
    /\ mgr' = [mgr EXCEPT !.reconnectAttempt = 0]
    /\ UNCHANGED <<sock, reconnectTimer, connecting, worker, budget>>
    /\ ConnUnchanged

\* handleConnectionUpdate({connection: 'open'}): the fields are reset and
\* the onConnected callbacks run on the socket.
ConnOpen ==
    /\ sock = "opening"
    /\ sock' = "open"
    /\ connStatus' = "connected"
    /\ mgr' = [mgr EXCEPT !.reconnectAttempt = 0, !.retryStartedAt = Null,
                          !.listener = TRUE]
    /\ UNCHANGED <<reconnectTimer, connecting, worker, budget>>
    /\ ConnUnchanged

\* The socket emits creds.update: saveCreds writes its credentials.
CredsUpdate ==
    /\ sock \in {"opening", "open"}
    /\ mgr.auth # mgr.creds
    /\ mgr' = [mgr EXCEPT !.auth = mgr.creds,
                          !.authKey = mgr.masterKey, !.tampered = FALSE]
    /\ UNCHANGED <<connStatus, sock, reconnectTimer, connecting, worker,
                   budget>>
    /\ ConnUnchanged

\* clearAuthState that leaves the table as it is.
clearAuthStateKeep(m) == m

\* clearAuthState(): db.delete(authStateTable)
clearAuthState(m) ==
    [m EXCEPT !.auth = 0, !.authKey = m.masterKey, !.tampered = FALSE,
              !.deleted = IF m.auth # 0 THEN @ \cup {m.auth} ELSE @]

\* resetToPairing(): the fields are reset and connect() is called.
resetToPairing(m) ==
    /\ connStatus' = "pairing"
    /\ connect([m EXCEPT !.reconnectAttempt = 0, !.retryStartedAt = Null,
                         !.caller = "reset"])

\* scheduleReconnect(delayMs): a pending timer is replaced.
scheduleReconnect(m, delayMs) ==
    /\ reconnectTimer' = TRUE
    /\ mgr' = [m EXCEPT !.timerAt = now + delayMs, !.delay = delayMs]

\* reconnectWithBackoff()
reconnectWithBackoff(m0, j) ==
    LET started == IF m0.retryStartedAt = Null THEN now
                   ELSE m0.retryStartedAt
        m == [m0 EXCEPT !.retryStartedAt = started]
    IN  IF isRetryWindowExhausted(started, now)
        THEN resetToPairing(clearAuthState(m))
        ELSE /\ connStatus' = "connecting"
             /\ scheduleReconnect(
                    [m EXCEPT !.reconnectAttempt = @ + 1],
                    calculateBackoff(m.reconnectAttempt, j))
             /\ sock' = IF sock = "null" THEN "null" ELSE "closed"
             /\ worker' = EndSocket(worker)
             /\ connecting' = connecting

\* handleDisconnect with 440 treated as a transient code.
handleDisconnectRetry440(m, code, j) ==
    CASE code \in {401, 403} -> resetToPairing(clearAuthState(m))
      [] code = 515 ->
           /\ scheduleReconnect(m, 0)
           /\ sock' = "closed"
           /\ worker' = EndSocket(worker)
           /\ UNCHANGED <<connecting, connStatus>>
      [] OTHER -> reconnectWithBackoff(m, j)

\* handleDisconnect with 515 treated as a transient code.
handleDisconnectBackoff515(m, code, j) ==
    CASE code \in {401, 403} -> resetToPairing(clearAuthState(m))
      [] code = 440 ->
           /\ connStatus' = "disconnected"
           /\ sock' = "closed"
           /\ worker' = EndSocket(worker)
           /\ mgr' = m
           /\ UNCHANGED <<connecting, reconnectTimer>>
      [] OTHER -> reconnectWithBackoff(m, j)

\* handleDisconnect(statusCode); m is the manager record of the caller.
handleDisconnect(m, code, j) ==
    CASE code \in {401, 403} -> resetToPairing(clearAuthState(m))
      [] code = 440 ->
           /\ connStatus' = "disconnected"
           /\ sock' = "closed"
           /\ worker' = EndSocket(worker)
           /\ mgr' = m
           /\ UNCHANGED <<connecting, reconnectTimer>>
      [] code = 515 ->
           /\ scheduleReconnect(m, 0)
           /\ sock' = "closed"
           /\ worker' = EndSocket(worker)
           /\ UNCHANGED <<connecting, connStatus>>
      [] OTHER -> reconnectWithBackoff(m, j)

\* handleConnectionUpdate({connection: 'close'}), which the socket emits as
\* it ends: lastDisconnect is set and handleDisconnect called.
ConnClose(code, j) ==
    /\ sock \in {"opening", "open"}
    /\ connecting < MaxConnecting
    /\ budget.closes > 0
    /\ budget' = [budget EXCEPT !.closes = @ - 1]
    /\ handleDisconnect([mgr EXCEPT !.lastCode = code, !.sockLive = FALSE],
                        code, j)
    /\ ConnUnchanged

\* The reconnect timer fires: this.connect().
TimerFire ==
    /\ reconnectTimer
    /\ mgr.timerAt <= now
    /\ connecting < MaxConnecting
    /\ connect([mgr EXCEPT !.caller = "timer"])
    /\ UNCHANGED <<connStatus, budget>>
    /\ ConnUnchanged

\* connect() rejects, its useSQLiteAuthState having thrown.
ConnectRejected ==
    /\ connecting > 0
    /\ mgr.threw
    /\ mgr.caller # "none"
    /\ connecting' = connecting - 1
    /\ mgr' = [mgr EXCEPT !.threw = FALSE]
    /\ UNCHANGED <<connStatus, sock, reconnectTimer, worker, budget>>
    /\ ConnUnchanged

\* The caller's handler of the rejection runs.  start() passes the error
\* on to main(), whose catch ends the process; the timer's catch calls
\* reconnectWithBackoff(); the catch in resetToPairing() only logs.
ConnectCatch(j) ==
    /\ connecting = 0
    /\ ~mgr.threw
    /\ mgr.caller # "none"
    /\ LET m == [mgr EXCEPT !.caller = "none"]
       IN  CASE mgr.caller = "timer" -> reconnectWithBackoff(m, j)
             [] mgr.caller = "start" ->
                  /\ mgr' = [m EXCEPT !.exited = TRUE]
                  /\ UNCHANGED <<connStatus, sock, reconnectTimer, worker,
                                 connecting>>
             [] OTHER ->
                  /\ mgr' = m
                  /\ UNCHANGED <<connStatus, sock, reconnectTimer, worker,
                                 connecting>>
    /\ UNCHANGED budget
    /\ ConnUnchanged

\* The stored ciphertext is modified from outside the process.
Tamper ==
    /\ budget.tampers > 0
    /\ ~mgr.exited
    /\ mgr.auth # 0
    /\ ~mgr.tampered
    /\ budget' = [budget EXCEPT !.tampers = @ - 1]
    /\ mgr' = [mgr EXCEPT !.tampered = TRUE]
    /\ UNCHANGED <<connStatus, sock, reconnectTimer, connecting, worker>>
    /\ ConnUnchanged

\* destroy that leaves a pending reconnect timer running.
destroyKeepTimer ==
    /\ connecting = 0
    /\ budget.destroys > 0
    /\ budget' = [budget EXCEPT !.destroys = @ - 1]
    /\ sock' = "null"
    /\ worker' = EndSocket(worker)
    /\ mgr' = [cleanupSocket(mgr) EXCEPT !.destroyed = TRUE]
    /\ UNCHANGED <<connStatus, connecting, reconnectTimer>>
    /\ ConnUnchanged

\* destroy(), called by the shutdown handler: cleanupSocket().  The handler
\* is a task of its own, and connect() resumes from its await, which waits
\* for no I/O, before another task runs.
destroyThen(p) ==
    /\ connecting = 0
    /\ budget.destroys > 0
    /\ budget' = [budget EXCEPT !.destroys = @ - 1]
    /\ reconnectTimer' = FALSE
    /\ sock' = "null"
    /\ worker' = EndSocket(worker)
    /\ mgr' = [cleanupSocket(mgr) EXCEPT !.destroyed = TRUE]
    /\ proc' = p
    /\ UNCHANGED <<connStatus, connecting>>
    /\ UNCHANGED <<now, cfg, msgs, jobs, api, limiterUntil,
                   providerCalls, failedEvents, sentLog, rule, rjob,
                   bus, vault, store, sched>>

\* destroy() on its own: the process goes on as it was.
destroy == destroyThen(proc)

\* --------------------------------------------------------------- shutdown

Signals == 1..MaxSignals

\* shutdown() once per signal: where each call waits, the state of what it
\* closes, and the order in which the closes finished.
NoProc == [pc |-> [s \in Signals |-> "none"], tunnel |-> "none",
           workerSt |-> "open", queueSt |-> "open",
           closed |-> <<>>, exited |-> FALSE]

\* close() of a worker, queue or tunnel: the first call starts the close,
\* a later one waits for the same promise.
Close(st) == IF st = "open" THEN "closing" ELSE st

\* shutdown() that starts every close at once.
SignalAllAtOnce(s) ==
    /\ ~proc.exited
    /\ proc.pc[s] = "none"
    /\ proc' = [proc EXCEPT !.pc[s] = "worker",
                            !.tunnel = Close(@),
                            !.workerSt = Close(@),
                            !.queueSt = Close(@)]
    /\ OthersUnchanged /\ UNCHANGED <<bus, vault, store, sched>>

\* SIGINT or SIGTERM: shutdown() up to its first await.
Signal(s) ==
    /\ ~proc.exited
    /\ proc.pc[s] = "none"
    /\ proc' = IF proc.tunnel # "none"
               THEN [proc EXCEPT !.pc[s] = "tunnel", !.tunnel = Close(@)]
               ELSE [proc EXCEPT !.pc[s] = "worker", !.workerSt = Close(@)]
    /\ OthersUnchanged /\ UNCHANGED <<bus, vault, store, sched>>

TunnelClosed ==
    /\ ~proc.exited
    /\ proc.tunnel = "closing"
    /\ proc' = [proc EXCEPT !.tunnel = "closed"]
    /\ OthersUnchanged /\ UNCHANGED <<bus, vault, store, sched>>

\* worker.close() resolves once the job in progress has ended.
WorkerClosed ==
    /\ ~proc.exited
    /\ proc.workerSt = "closing"
    /\ worker.pc = "idle"
    /\ proc' = [proc EXCEPT !.workerSt = "closed",
                            !.closed = Append(@, "worker")]
    /\ OthersUnchanged /\ UNCHANGED <<bus, vault, store, sched>>

QueueClosed ==
    /\ ~proc.exited
    /\ proc.queueSt = "closing"
    /\ proc' = [proc EXCEPT !.queueSt = "closed",
                            !.closed = Append(@, "queue")]
    /\ OthersUnchanged /\ UNCHANGED <<bus, vault, store, sched>>

\* shutdown() from an await that has resolved to its next one, or to
\* plugin.destroy(); server.close(); process.exit(0), which ends the process
\* and with it the database handle.
ShutdownResume(s) ==
    /\ ~proc.exited
    /\ CASE proc.pc[s] = "tunnel" /\ proc.tunnel = "closed" ->
              /\ proc' = [proc EXCEPT !.pc[s] = "worker",
                                      !.workerSt = Close(@)]
              /\ OthersUnchanged /\ UNCHANGED <<bus, vault, store, sched>>
         [] proc.pc[s] = "worker" /\ proc.workerSt = "closed" ->
              /\ proc' = [proc EXCEPT !.pc[s] = "queue",
                                      !.queueSt = Close(@)]
              /\ OthersUnchanged /\ UNCHANGED <<bus, vault, store, sched>>
         [] proc.pc[s] = "queue" /\ proc.queueSt = "closed" ->
              destroyThen([proc EXCEPT !.pc[s] = "done",
                                       !.closed = @ \o <<"manager", "store">>,
                                       !.exited = TRUE])
         [] OTHER -> FALSE

\* --------------------------------------------------------------- worker

WorkerUnchanged ==
    UNCHANGED <<now, budget, cfg, api, connStatus, sock, reconnectTimer,
                connecting, mgr, bus, proc, vault, store, sched>>

Pow2(n) == IF n <= 0 THEN 1 ELSE 2^n

\* The job ends without an error: moved to completed (kept for 24 h).
JobCompleted(q, id) ==
    [q EXCEPT ![id] = [state |-> "completed",
                       attemptsMade |-> q[id].attemptsMade + 1, runAt |-> 0]]

\* job.moveToFailed: retried with exponential backoff while attempts remain,
\* else moved to failed (kept for 7 days).
JobFailed(q, id, t) ==
    LET n == q[id].attemptsMade + 1
    IN  [q EXCEPT ![id] =
            IF n < JobAttempts
            THEN [state |-> "delayed", attemptsMade |-> n,
                  runAt |-> t + BackoffDelayMs * Pow2(n - 1)]
            ELSE [state |-> "failed", attemptsMade |-> n, runAt |-> 0]]

\* processSendJob: is the row one the job returns on without sending?
SkipsSend(m) == m.status = "absent" \/ m.status = "cancelled"

\* The worker takes job msg-<i> and runs processSendJob to its first await
\* (or to its return or throw).
processSendJob(i) ==
    /\ worker.pc = "idle"
    /\ jobs[i].state = "delayed"
    /\ jobs[i].runAt <= now
    /\ limiterUntil <= now
    /\ limiterUntil' = now + LimiterMs
    /\ IF SkipsSend(msgs[i])
       THEN /\ jobs' = JobCompleted(jobs, i)
            /\ UNCHANGED <<msgs, worker, providerCalls, failedEvents, sentLog>>
       ELSE IF ~canSend(msgs, now)
       THEN /\ msgs' = [msgs EXCEPT ![i].status = "failed",
                                    ![i].failedAt = ToDb(now),
                                    ![i].failureReason = "cap"]
            /\ failedEvents' = [failedEvents EXCEPT ![i] = Bump(@)]
            /\ jobs' = JobCompleted(jobs, i)
            /\ sentLog' = Warned(sentLog, msgs', now)
            /\ UNCHANGED <<worker, providerCalls>>
       ELSE IF getSocket = "null"
       THEN /\ worker' = [Idle EXCEPT !.pc = "failing", !.id = i,
                                      !.reason = "notconnected"]
            /\ jobs' = [jobs EXCEPT ![i].state = "active"]
            /\ UNCHANGED <<msgs, providerCalls, failedEvents, sentLog>>
       ELSE /\ worker' = [Idle EXCEPT !.pc = "sending", !.id = i,
                                      !.attempts = msgs[i].attempts,
                                      !.mediaUrl = msgs[i].mediaUrl,
                                      !.mediaType = msgs[i].mediaType,
                                      !.wakeAt = now + SendMs,
                                      !.live = (sock = "open")]
            /\ providerCalls' = [providerCalls EXCEPT ![i] = Bump(@)]
            /\ jobs' = [jobs EXCEPT ![i].state = "active"]
            /\ UNCHANGED <<msgs, failedEvents, sentLog>>
    /\ UNCHANGED <<rule, rjob>>
    /\ WorkerUnchanged

PaceDelayNoMin(k) ==
    (k * (cfg.max_delay_ms - cfg.min_delay_ms)) \div RandDen

\* delay = minDelay + Math.random() * (maxDelay - minDelay)
PaceDelay(k) ==
    cfg.min_delay_ms + (k * (cfg.max_delay_ms - cfg.min_delay_ms)) \div RandDen

\* SendResolved with the update to sent leaving attempts as read.
SendResolvedSameAttempts(k) ==
    /\ worker.pc = "sending"
    /\ worker.name = "send"
    /\ worker.live
    /\ msgs' = [msgs EXCEPT ![worker.id] =
            IF @.status = "absent" THEN @
            ELSE [@ EXCEPT !.status = "sent", !.wamid = worker.id,
                           !.sentAt = ToDb(now),
                           !.attempts = worker.attempts]]
    /\ sentLog' = Warned([sentLog EXCEPT !.prev = sentLog.last,
                                         !.last = now], msgs', now)
    /\ worker' = [worker EXCEPT !.pc = "sleeping",
                                !.wakeAt = now + Max(0, PaceDelay(k))]
    /\ UNCHANGED <<jobs, limiterUntil, providerCalls, failedEvents, rule,
                   rjob>>
    /\ WorkerUnchanged

\* processSendJob after sock.sendMessage resolved: the update to sent, the
\* broadcast, and the start of the pacing sleep.
SendResolved(k) ==
    /\ worker.pc = "sending"
    /\ worker.name = "send"
    /\ worker.live
    /\ msgs' = [msgs EXCEPT ![worker.id] =
            IF @.status = "absent" THEN @
            ELSE [@ EXCEPT !.status = "sent", !.wamid = worker.id,
                           !.sentAt = ToDb(now),
                           !.attempts = worker.attempts + 1]]
    /\ sentLog' = Warned([sentLog EXCEPT !.prev = sentLog.last,
                                         !.last = now], msgs', now)
    /\ worker' = [worker EXCEPT !.pc = "sleeping",
                                !.wakeAt = now + Max(0, PaceDelay(k))]
    /\ UNCHANGED <<jobs, limiterUntil, providerCalls, failedEvents, rule,
                   rjob>>
    /\ WorkerUnchanged

\* The worker takes the recurring-send job of rule r and runs
\* processRecurringSendJob to its await (or to its return or throw).
processRecurringSendJob(r) ==
    /\ worker.pc = "idle"
    /\ rjob[r].state = "delayed"
    /\ rjob[r].runAt <= now
    /\ limiterUntil <= now
    /\ limiterUntil' = now + LimiterMs
    /\ IF ~rule[r].present \/ ~rule[r].enabled
       THEN /\ rjob' = JobCompleted(rjob, r)
            /\ UNCHANGED <<msgs, rule, worker, providerCalls, failedEvents, sentLog>>
       ELSE IF rule[r].maxOccurrences # 0
               /\ rule[r].occurrenceCount >= rule[r].maxOccurrences
       THEN /\ rule' = [rule EXCEPT ![r].enabled = FALSE]
            /\ rjob' = JobCompleted(rjob, r)
            /\ UNCHANGED <<msgs, worker, providerCalls, failedEvents, sentLog>>
       ELSE IF ~canSend(msgs, now)
       THEN /\ FreeIds # {}
            /\ msgs' = [msgs EXCEPT ![NewId] =
                    [NoRow EXCEPT !.status = "failed",
                                  !.recurringRuleId = r,
                                  !.scheduledAt = ToDb(now),
                                  !.failedAt = ToDb(now),
                                  !.failureReason = "cap"]]
            /\ failedEvents' = [failedEvents EXCEPT ![NewId] = Bump(@)]
            /\ rjob' = JobCompleted(rjob, r)
            /\ sentLog' = Warned(sentLog, msgs', now)
            /\ UNCHANGED <<rule, worker, providerCalls>>
       ELSE IF rule[r].contactId # 1
       THEN /\ rjob' = JobCompleted(rjob, r)
            /\ UNCHANGED <<msgs, rule, worker, providerCalls, failedEvents, sentLog>>
       ELSE IF getSocket = "null"
       THEN /\ worker' = [Idle EXCEPT !.pc = "failing",
                                      !.name = "recurring-send",
                                      !.rule = r,
                                      !.reason = "notconnected"]
            /\ rjob' = [rjob EXCEPT ![r].state = "active"]
            /\ UNCHANGED <<msgs, rule, providerCalls, failedEvents, sentLog>>
       ELSE /\ FreeIds # {}
            /\ msgs' = [msgs EXCEPT ![NewId] =
                    [NoRow EXCEPT !.status = "pending",
                                  !.recurringRuleId = r,
                                  !.scheduledAt = ToDb(now)]]
            /\ worker' = [Idle EXCEPT !.pc = "sending",
                                      !.name = "recurring-send",
                                      !.id = NewId, !.rule = r,
                                      !.t0 = now,
                                      !.wakeAt = now + SendMs,
                                      !.occurrenceCount =
                                          rule[r].occurrenceCount,
                                      !.live = (sock = "open")]
            /\ providerCalls' = [providerCalls EXCEPT ![NewId] = Bump(@)]
            /\ rjob' = [rjob EXCEPT ![r].state = "active"]
            /\ UNCHANGED <<rule, failedEvents, sentLog>>
    /\ UNCHANGED jobs
    /\ WorkerUnchanged

\* processRecurringSendJob after sock.sendMessage resolved: the row and the
\* rule are updated with the instant taken before the send.
RecurringSendResolved(k) ==
    /\ worker.pc = "sending"
    /\ worker.name = "recurring-send"
    /\ worker.live
    /\ msgs' = [msgs EXCEPT ![worker.id] =
            IF @.status = "absent" THEN @
            ELSE [@ EXCEPT !.status = "sent", !.wamid = worker.id,
                           !.sentAt = ToDb(worker.t0),
                           !.attempts = 1]]
    /\ rule' = [rule EXCEPT ![worker.rule] =
            IF @.present
            THEN [@ EXCEPT !.occurrenceCount = worker.occurrenceCount + 1]
            ELSE @]
    /\ sentLog' = Warned([sentLog EXCEPT !.prev = sentLog.last,
                                         !.last = worker.t0], msgs', now)
    /\ worker' = [worker EXCEPT !.pc = "sleeping",
                                !.wakeAt = now + Max(0, PaceDelay(k))]
    /\ UNCHANGED <<jobs, rjob, limiterUntil, providerCalls, failedEvents>>
    /\ WorkerUnchanged

\* sock.sendMessage rejected: the job function throws.
SendRejected ==
    /\ worker.pc = "sending"
    /\ worker' = [worker EXCEPT !.pc = "failing", !.reason = "senderror"]
    /\ UNCHANGED <<msgs, jobs, limiterUntil, providerCalls, failedEvents,
                   sentLog, rule, rjob>>
    /\ WorkerUnchanged

\* The pacing sleep is over: the job returns.
SleepDone ==
    /\ worker.pc = "sleeping"
    /\ worker.wakeAt <= now
    /\ IF worker.name = "send"
       THEN jobs' = JobCompleted(jobs, worker.id) /\ UNCHANGED rjob
       ELSE rjob' = JobCompleted(rjob, worker.rule) /\ UNCHANGED jobs
    /\ worker' = Idle
    /\ UNCHANGED <<msgs, limiterUntil, providerCalls, failedEvents, sentLog,
                   rule>>
    /\ WorkerUnchanged

\* worker.on('failed'): the row written by the handler.
FailedRow(m, t, reason, attemptsMade) ==
    [m EXCEPT !.status = "failed", !.failedAt = ToDb(t),
              !.failureReason = reason, !.attempts = attemptsMade + 1]

\* The job threw: moveToFailed, then the 'failed' event and its handler,
\* which returns at once for a job without a scheduledMessageId.
OnFailed ==
    /\ worker.pc = "failing"
    /\ IF worker.name = "send"
       THEN /\ jobs' = JobFailed(jobs, worker.id, now)
            /\ msgs' = [msgs EXCEPT ![worker.id] =
                    IF @.status = "absent" THEN @
                    ELSE FailedRow(@, now, worker.reason,
                                   jobs'[worker.id].attemptsMade)]
            /\ failedEvents' = [failedEvents EXCEPT ![worker.id] = Bump(@)]
            /\ UNCHANGED rjob
       ELSE /\ rjob' = JobFailed(rjob, worker.rule, now)
            /\ UNCHANGED <<jobs, msgs, failedEvents>>
    /\ worker' = Idle
    /\ UNCHANGED <<limiterUntil, providerCalls, sentLog, rule>>
    /\ WorkerUnchanged

\* The job scheduler recurring-<r> produces the job of the next occurrence.
RuleFire(r) ==
    /\ sched[r].registered
    /\ rjob[r].state \in {"none", "completed", "failed"}
    /\ budget.fires > 0
    /\ budget' = [budget EXCEPT !.fires = @ - 1]
    /\ rjob' = [rjob EXCEPT ![r] = [state |-> "delayed", attemptsMade |-> 0,
                                    runAt |-> now]]
    /\ UNCHANGED <<now, cfg, msgs, jobs, api, worker, limiterUntil,
                   connStatus, sock, reconnectTimer, connecting,
                   providerCalls, failedEvents, sentLog, rule, mgr, bus, proc, vault, store, sched>>

\* ----------------------------------------------------------- rule service

FreeRules == {r \in RuleIds : ~rule[r].present}
NewRule == CHOOSE r \in FreeRules : \A q \in FreeRules : r <= q

RuleTypes == {"daily", "birthday"}

RuleServiceUnchanged ==
    UNCHANGED <<now, cfg, msgs, jobs, api, worker, limiterUntil, connStatus,
                sock, reconnectTimer, connecting, providerCalls, failedEvents,
                sentLog, rjob, mgr, bus, proc, vault, store>>

\* createRecurringRule: resolveContactId throws for an unknown contact; the
\* row is inserted enabled with occurrenceCount 0, whatever rows exist, and
\* its scheduler registered with the cron expression as pattern.
createRecurringRule(c, type, max, params) ==
    /\ budget.calls > 0
    /\ c = 1
    /\ FreeRules # {}
    /\ budget' = [budget EXCEPT !.calls = @ - 1]
    /\ LET cronExpression ==
               buildCronExpression(type, params, DefaultSendHour)
       IN  /\ rule' = [rule EXCEPT ![NewRule] =
                   [present |-> TRUE, enabled |-> TRUE, contactId |-> c,
                    type |-> type, maxOccurrences |-> max,
                    occurrenceCount |-> 0,
                    cronExpression |-> cronExpression]]
           /\ sched' = upsertJobScheduler(sched, NewRule, cronExpression)
    /\ RuleServiceUnchanged

\* The maxOccurrences of an update request: absent, null (0) or a number >= 1.
MaxPatches ==
    {[given |-> FALSE, val |-> 0]} \cup {[given |-> TRUE, val |-> v] : v \in 0..MaxOcc}

EnabledPatches == {"undefined", "true", "false"}

\* updateRecurringRule: the fields the request carries are written as
\* given; the cron expression is built again from the request when it
\* carries a schedule field; the scheduler is removed when the request
\* says enabled: false and upserted otherwise.
updateRecurringRule(r, max, en, params) ==
    /\ budget.calls > 0
    /\ rule[r].present
    /\ budget' = [budget EXCEPT !.calls = @ - 1]
    /\ LET needsCronUpdate ==
               \/ params.sendHour # Null
               \/ params.sendMinute # Null
               \/ params.dayOfWeek # Null
               \/ params.dayOfMonth # Null
               \/ params.month # Null
           newCron == buildCronExpression(rule[r].type, params,
                                          DefaultSendHour)
           cronExpr == IF needsCronUpdate THEN newCron
                       ELSE rule[r].cronExpression
       IN  /\ rule' = [rule EXCEPT
                   ![r].maxOccurrences = IF max.given THEN max.val ELSE @,
                   ![r].enabled = IF en = "undefined" THEN @
                                  ELSE (en = "true"),
                   ![r].cronExpression = cronExpr]
           /\ sched' = IF en = "false" THEN removeJobScheduler(sched, r)
                       ELSE upsertJobScheduler(sched, r, cronExpr)
    /\ RuleServiceUnchanged

\* deleteRecurringRule: the rule is disabled, the row stays, the scheduler
\* is removed.
deleteRecurringRule(r) ==
    /\ budget.calls > 0
    /\ rule[r].present
    /\ budget' = [budget EXCEPT !.calls = @ - 1]
    /\ rule' = [rule EXCEPT ![r].enabled = FALSE]
    /\ sched' = removeJobScheduler(sched, r)
    /\ RuleServiceUnchanged

\* The first row of the contact with type 'birthday' (select ... .get()).
BirthdayRules(c) ==
    {r \in RuleIds : rule[r].present /\ rule[r].contactId = c
                                     /\ rule[r].type = "birthday"}
existingRule(c) == CHOOSE r \in BirthdayRules(c) : \A q \in BirthdayRules(c) : r <= q

\* The birthdays a contact is given: null, '03-15', '0315' and '13-40',
\* as sequences of characters.
Birthdays == {<<>>, <<"0", "3", "-", "1", "5">>, <<"0", "3", "1", "5">>,
              <<"1", "3", "-", "4", "0">>}

\* birthday.split('-')
RECURSIVE split(_)
split(str) ==
    IF \A i \in 1..Len(str) : str[i] # "-" THEN <<str>>
    ELSE LET i == CHOOSE k \in 1..Len(str) :
                      str[k] = "-" /\ \A q \in 1..(k - 1) : str[q] # "-"
         IN  <<SubSeq(str, 1, i - 1)>> \o split(SubSeq(str, i + 1, Len(str)))

\* parseInt(part, 10) of a string of digits; NaN (Null) for the empty one.
DigitChars == <<"0", "1", "2", "3", "4", "5", "6", "7", "8", "9">>
RECURSIVE parseDigits(_, _)
parseDigits(part, acc) ==
    IF part = <<>> THEN acc
    ELSE parseDigits(Tail(part),
                     acc * 10 + (CHOOSE d \in 0..9 : DigitChars[d + 1] = Head(part)))
parseInt(part) == IF part = <<>> THEN Null ELSE parseDigits(part, 0)

\* syncBirthdayReminder(contactId, birthday, true, name): a birthday that is
\* set and parses updates the contact's birthday rule or inserts one, and
\* upserts its scheduler; one that does not parse returns; a cleared one
\* disables the rule and removes its scheduler.
syncBirthdayReminder(c, birthday) ==
    /\ budget.calls > 0
    /\ budget' = [budget EXCEPT !.calls = @ - 1]
    /\ IF birthday # <<>>
       THEN LET parts == split(birthday)
                month == parseInt(parts[1])
                day == parseInt(parts[2])
                cronExpression ==
                    buildCronExpression("birthday",
                        [NoParams EXCEPT !.dayOfMonth = day, !.month = month],
                        DefaultSendHour)
            IN  IF Len(parts) # 2 THEN UNCHANGED <<rule, sched>>
                ELSE IF month = Null \/ day = Null \/ month < 1 \/ month > 12
                                     \/ day < 1 \/ day > 31
                THEN UNCHANGED <<rule, sched>>
                ELSE IF BirthdayRules(c) # {}
                THEN /\ rule' = [rule EXCEPT
                            ![existingRule(c)].enabled = TRUE,
                            ![existingRule(c)].cronExpression = cronExpression]
                     /\ sched' = upsertJobScheduler(sched, existingRule(c),
                                                    cronExpression)
                ELSE /\ FreeRules # {}
                     /\ rule' = [rule EXCEPT ![NewRule] =
                            [present |-> TRUE, enabled |-> TRUE,
                             contactId |-> c, type |-> "birthday",
                             maxOccurrences |-> 0, occurrenceCount |-> 0,
                             cronExpression |-> cronExpression]]
                     /\ sched' = upsertJobScheduler(sched, NewRule,
                                                    cronExpression)
       ELSE IF BirthdayRules(c) # {}
            THEN /\ rule' = [rule EXCEPT ![existingRule(c)].enabled = FALSE]
                 /\ sched' = removeJobScheduler(sched, existingRule(c))
            ELSE UNCHANGED <<rule, sched>>
    /\ RuleServiceUnchanged

\* -------------------------------------------------------- retention sweep

\* What becomes of the Date in sql`${sentAt} < ${cutoff}`: the raw template
\* hands it to the driver unconverted, which rejects it or binds its
\* millisecond number; the column holds whole seconds.
BindOutcomes == {"rejected", "number"}

\* The rows left by the delete with cutoff = t - retentionDays * 86400000.
cleanupMessageHistory(rows, t, b) ==
    IF cfg.retention_days = 0 THEN rows
    ELSE LET cutoff == t - cfg.retention_days * DayMs
         IN  IF b = "rejected" THEN rows
             ELSE [i \in IntentIds |->
                     IF /\ rows[i].status \in {"sent", "delivered", "failed"}
                        /\ rows[i].sentAt # Null
                        /\ rows[i].sentAt < cutoff
                     THEN NoRow ELSE rows[i]]

\* The 'cleanup' job of the message-cleanup scheduler; a throw leaves its
\* 'failed' handler nothing to update (the job carries no message id).
processCleanupJob(b) ==
    /\ worker.pc = "idle"
    /\ budget.fires > 0
    /\ budget' = [budget EXCEPT !.fires = @ - 1]
    /\ msgs' = cleanupMessageHistory(msgs, now, b)
    /\ UNCHANGED <<now, cfg, jobs, api, worker, limiterUntil, connStatus,
                   sock, reconnectTimer, connecting, providerCalls,
                   failedEvents, sentLog, rule, rjob, mgr, bus, proc, vault, store, sched>>

\* ------------------------------------------------------ delivery listener

\* messages.update with status 3 for a provider message id: the row with
\* that whatsappMessageId is updated whatever its status, and every update
\* that matched a row is broadcast.
DeliveryAck(i) ==
    /\ sock = "open"
    /\ mgr.listener
    /\ msgs[i].wamid # 0
    /\ msgs' = [msgs EXCEPT ![i].status = "delivered",
                            ![i].deliveredAt = ToDb(now)]
    /\ UNCHANGED <<now, budget, cfg, jobs, api, worker,
                   limiterUntil, connStatus, sock, reconnectTimer,
                   connecting, providerCalls, failedEvents, sentLog, rule, rjob,
                   mgr, bus, proc, vault, store, sched>>

\* ------------------------------------------------------------------ clock

\* Instants at which a step of the worker becomes due: the start of a
\* delayed job (not before the limiter window ends), a provider answer
\* that takes SendMs, the end of the pacing sleep, the reconnect timer,
\* and the end of the retry window while a connection attempt hangs.
Due ==
    {Max(jobs[i].runAt, limiterUntil) :
        i \in {j \in IntentIds : jobs[j].state = "delayed"}}
    \cup {Max(rjob[r].runAt, limiterUntil) :
        r \in {q \in RuleIds : rjob[q].state = "delayed"}}
    \cup (IF worker.pc \in {"sending", "sleeping"} THEN {worker.wakeAt}
          ELSE {})
    \cup (IF reconnectTimer THEN {mgr.timerAt} ELSE {})
    \cup (IF mgr.retryStartedAt # Null /\ sock = "opening"
          THEN {mgr.retryStartedAt + maxRetryMs + 1} ELSE {})

FutureDue == {t \in Due : t > now}

\* The clock moves to the next due instant.
Deadlines ==
    IF FutureDue = {} THEN {}
    ELSE {CHOOSE t \in FutureDue : \A u \in FutureDue : t <= u}

Tick(t) ==
    /\ budget.ticks > 0
    /\ t > now
    /\ now' = t
    /\ budget' = [budget EXCEPT !.ticks = @ - 1]
    /\ UNCHANGED <<cfg, msgs, jobs, api, worker,
                   limiterUntil, connStatus, sock, reconnectTimer,
                   connecting, providerCalls, failedEvents, sentLog, rule, rjob,
                   mgr, bus, proc, vault, store, sched>>

\* ------------------------------------------------------------------- spec

DefaultReconnect == [base_delay_ms |-> ReconnectBaseDelay,
                     max_delay_ms |-> ReconnectMaxDelay,
                     max_retry_minutes |-> MaxRetryMinutes]

DefaultCfg == [min_delay_ms |-> DefaultMinDelay,
               max_delay_ms |-> DefaultMaxDelay,
               warn_threshold_pct |-> WarnThresholdPct,
               retention_days |-> RetentionDays,
               reconnect |-> DefaultReconnect]

InitRest ==
    /\ bus = NoBus
    /\ proc = NoProc
    /\ vault = NoVault
    /\ store = NoStore
    /\ InitSched
    /\ now = Clock0
    /\ msgs = [i \in IntentIds |-> NoRow]
    /\ jobs = [i \in IntentIds |-> NoJob]
    /\ api = NoApi
    /\ worker = Idle
    /\ limiterUntil = 0
    /\ reconnectTimer = FALSE
    /\ providerCalls = [i \in IntentIds |-> 0]
    /\ failedEvents = [i \in IntentIds |-> 0]
    /\ sentLog = [prev |-> Null, last |-> Null, event |-> "none",
                  warnDay |-> Null, repeat |-> FALSE]
    /\ rjob = [r \in RuleIds |-> NoJob]

Init ==
    /\ cfg = DefaultCfg
    /\ budget = [rows |-> MaxRows, calls |-> MaxApiCalls,
                 closes |-> MaxCloses, ticks |-> MaxTicks, fires |-> 0,
                 destroys |-> 0, tampers |-> 0]
    /\ rule = [r \in RuleIds |-> NoRule]
    /\ connStatus = "pairing"
    /\ sock = "null"
    /\ connecting = 1
    /\ mgr = readCreds([NoMgr EXCEPT !.caller = "start"])
    /\ InitRest

Next ==
    \/ \E c \in ContactIds, w \in SchedWhen : scheduleMessage(c, w)
    \/ \E i \in IntentIds : cancelMessage(i)
    \/ \E i \in IntentIds, w \in EditWhen : editMessage(i, w)
    \/ \E i \in IntentIds : retryMessage(i)
    \/ ApiResume
    \/ \E i \in IntentIds : processSendJob(i)
    \/ \E k \in 0..(RandDen - 1) : SendResolved(k)
    \/ SendRejected
    \/ SleepDone
    \/ OnFailed
    \/ \E i \in IntentIds : DeliveryAck(i)
    \/ ConnectResume
    \/ ConnQr
    \/ ConnOpen
    \/ \E code \in DisconnectCodes : ConnClose(code, 0)
    \/ TimerFire
    \/ \E t \in Deadlines : Tick(t)

Spec == Init /\ [][Next]_vars

\* ------------------------------------- two intents, one rule, open socket

\* rate_limit settings the config schema accepts: the defaults, a minimum
\* under two seconds, a maximum under the minimum.
PaceCfgs ==
    {DefaultCfg,
     [DefaultCfg EXCEPT !.min_delay_ms = 1000, !.max_delay_ms = 3000],
     [DefaultCfg EXCEPT !.min_delay_ms = 3000, !.max_delay_ms = 1000]}

EnabledRule == [present |-> TRUE, enabled |-> TRUE, contactId |-> 1,
                type |-> "daily", maxOccurrences |-> 0, occurrenceCount |-> 0,
                cronExpression |->
                    buildCronExpression("daily", NoParams, DefaultSendHour)]

\* The manager once the first socket is paired and open.
OpenMgr == [readCreds(NoMgr) EXCEPT !.auth = 1, !.listener = TRUE,
                                    !.sockLive = TRUE]

\* The state once the socket is open and one recurring rule is registered.
InitCap ==
    /\ cfg \in PaceCfgs
    /\ budget = [rows |-> MaxCapRows, calls |-> 0, closes |-> 0,
                 ticks |-> MaxCapTicks, fires |-> MaxFires, destroys |-> 0, tampers |-> 0]
    /\ rule = [r \in RuleIds |-> IF r = 1 THEN EnabledRule ELSE NoRule]
    /\ connStatus = "connected"
    /\ sock = "open"
    /\ connecting = 0
    /\ mgr = OpenMgr
    /\ InitRest

NextCap ==
    \/ \E c \in ContactIds, w \in SchedWhen : scheduleMessage(c, w)
    \/ ApiResume
    \/ \E i \in IntentIds : processSendJob(i)
    \/ \E k \in 0..(RandDen - 1) : SendResolved(k)
    \/ \E r \in RuleIds : RuleFire(r)
    \/ \E r \in RuleIds : processRecurringSendJob(r)
    \/ \E k \in 0..(RandDen - 1) : RecurringSendResolved(k)
    \/ SendRejected
    \/ SleepDone
    \/ OnFailed
    \/ \E i \in IntentIds : DeliveryAck(i)
    \/ \E t \in Deadlines : Tick(t)

SpecCap == InitCap /\ [][NextCap]_vars

\* ------------------------------------------------ bulk on an open socket

InitBulk ==
    /\ cfg = DefaultCfg
    /\ budget = [rows |-> MaxBulkRows, calls |-> 0, closes |-> 0,
                 ticks |-> MaxBulkTicks, fires |-> 0, destroys |-> 0, tampers |-> 0]
    /\ rule = [r \in RuleIds |-> NoRule]
    /\ connStatus = "connected"
    /\ sock = "open"
    /\ connecting = 0
    /\ mgr = OpenMgr
    /\ InitRest

NextBulk ==
    \/ \E c \in ContactIds, w \in SchedWhen : scheduleMessage(c, w)
    \/ \E items \in BulkRequests : bulkScheduleMessages(items)
    \/ ApiResume
    \/ BulkResume
    \/ \E i \in IntentIds : processSendJob(i)
    \/ \E k \in 0..(RandDen - 1) : SendResolved(k)
    \/ SendRejected
    \/ SleepDone
    \/ OnFailed
    \/ \E t \in Deadlines : Tick(t)

SpecBulk == InitBulk /\ [][NextBulk]_vars

\* ------------------------------------------- the connection manager alone

\* reconnect settings the config schema accepts: the defaults, and a
\* maximum delay that the third attempt reaches.
ReconnectCfgs ==
    {DefaultCfg,
     [DefaultCfg EXCEPT !.reconnect.max_delay_ms = 4000]}

\* start() has called connect(), on a first run or with a stored session.
InitConn ==
    /\ cfg \in ReconnectCfgs
    /\ budget = [rows |-> 0, calls |-> 0, closes |-> MaxConnCloses,
                 ticks |-> MaxConnTicks, fires |-> 0,
                 destroys |-> MaxDestroys, tampers |-> 0]
    /\ rule = [r \in RuleIds |-> NoRule]
    /\ connStatus = "pairing"
    /\ sock = "null"
    /\ connecting = 1
    /\ mgr \in {readCreds([NoMgr EXCEPT !.caller = "start"]),
                readCreds([NoMgr EXCEPT !.caller = "start", !.auth = 1,
                                        !.lastCreds = 1])}
    /\ InitRest

NextConn ==
    \/ ConnectResume
    \/ ConnQr
    \/ ConnOpen
    \/ CredsUpdate
    \/ \E code \in DisconnectCodes, j \in Jitter : ConnClose(code, j)
    \/ TimerFire
    \/ destroy
    \/ \E t \in Deadlines : Tick(t)

SpecConn == InitConn /\ [][NextConn]_vars

\* ------------------------------ the connection manager and the vault

\* start() has called connect() over stored credentials, encrypted under
\* this process's master key or under another one.
InitAuth ==
    /\ cfg = DefaultCfg
    /\ budget = [rows |-> 0, calls |-> 0, closes |-> MaxAuthCloses,
                 ticks |-> MaxAuthTicks, fires |-> 0, destroys |-> 0,
                 tampers |-> MaxTampers]
    /\ rule = [r \in RuleIds |-> NoRule]
    /\ connStatus = "pairing"
    /\ sock = "null"
    /\ connecting = 1
    /\ mgr \in {readCreds([NoMgr EXCEPT !.caller = "start", !.auth = 1,
                                        !.lastCreds = 1, !.authKey = k]) :
                    k \in {1, 2}}
    /\ InitRest

NextAuth ==
    \/ ConnectResume
    \/ ConnectRejected
    \/ \E j \in Jitter : ConnectCatch(j)
    \/ ConnQr
    \/ ConnOpen
    \/ CredsUpdate
    \/ \E code \in DisconnectCodes, j \in Jitter : ConnClose(code, j)
    \/ TimerFire
    \/ Tamper
    \/ \E t \in Deadlines : Tick(t)

SpecAuth == InitAuth /\ [][NextAuth]_vars

\* ------------------------------------------------ rules on an open socket

InitRules ==
    /\ cfg = DefaultCfg
    /\ budget = [rows |-> 0, calls |-> MaxRuleCalls, closes |-> 0,
                 ticks |-> MaxRuleTicks, fires |-> MaxRuleFires,
                 destroys |-> 0, tampers |-> 0]
    /\ rule = [r \in RuleIds |-> NoRule]
    /\ connStatus = "connected"
    /\ sock = "open"
    /\ connecting = 0
    /\ mgr = OpenMgr
    /\ InitRest

NextRules ==
    \/ \E c \in ContactIds, ty \in RuleTypes, max \in 0..MaxOcc :
            createRecurringRule(c, ty, max, NoParams)
    \/ \E r \in RuleIds, max \in MaxPatches, en \in EnabledPatches :
            updateRecurringRule(r, max, en, NoParams)
    \/ \E r \in RuleIds : deleteRecurringRule(r)
    \/ \E c \in {1}, b \in Birthdays : syncBirthdayReminder(c, b)
    \/ \E r \in RuleIds : RuleFire(r)
    \/ \E r \in RuleIds : processRecurringSendJob(r)
    \/ \E k \in 0..(RandDen - 1) : RecurringSendResolved(k)
    \/ SleepDone
    \/ \E t \in Deadlines : Tick(t)

SpecRules == InitRules /\ [][NextRules]_vars

\* ------------------------------------------- the sweep over a stored history

SweepNow == 20 * DayMs
OldAt    == SweepNow - (SweepRetention + 1) * DayMs
RecentAt == SweepNow - DayMs

\* Rows the service and the worker leave behind: pending and cancelled ones
\* were never sent, failed ones failed before a send.
SweepRows ==
    {NoRow}
    \cup {[NoRow EXCEPT !.status = st, !.scheduledAt = ToDb(at)] :
            st \in {"pending", "cancelled"}, at \in {OldAt, RecentAt}}
    \cup {[NoRow EXCEPT !.status = "failed", !.scheduledAt = ToDb(at),
                        !.failedAt = ToDb(at), !.attempts = 1,
                        !.failureReason = "notconnected"] :
            at \in {OldAt, RecentAt}}
    \cup {[NoRow EXCEPT !.status = "sent", !.scheduledAt = ToDb(at),
                        !.sentAt = ToDb(at), !.attempts = 1, !.wamid = 1] :
            at \in {OldAt, RecentAt}}
    \cup {[NoRow EXCEPT !.status = "delivered", !.scheduledAt = ToDb(at),
                        !.sentAt = ToDb(at), !.deliveredAt = ToDb(at),
                        !.attempts = 1, !.wamid = 1] :
            at \in {OldAt, RecentAt}}

InitSweep ==
    /\ cfg \in {[DefaultCfg EXCEPT !.retention_days = SweepRetention],
                 [DefaultCfg EXCEPT !.retention_days = 0]}
    /\ budget = [rows |-> 0, calls |-> 0, closes |-> 0, ticks |-> 0,
                 fires |-> MaxSweeps, destroys |-> 0, tampers |-> 0]
    /\ now = SweepNow
    /\ msgs \in [IntentIds -> SweepRows]
    /\ jobs = [i \in IntentIds |-> NoJob]
    /\ api = NoApi
    /\ worker = Idle
    /\ limiterUntil = 0
    /\ connStatus = "connected"
    /\ sock = "open"
    /\ reconnectTimer = FALSE
    /\ connecting = 0
    /\ providerCalls = [i \in IntentIds |-> 0]
    /\ failedEvents = [i \in IntentIds |-> 0]
    /\ sentLog = [prev |-> Null, last |-> Null, event |-> "none",
                  warnDay |-> Null, repeat |-> FALSE]
    /\ rule = [r \in RuleIds |-> NoRule]
    /\ rjob = [r \in RuleIds |-> NoJob]
    /\ mgr = OpenMgr
    /\ bus = NoBus
    /\ proc = NoProc
    /\ vault = NoVault
    /\ store = NoStore
    /\ InitSched

NextSweep == \E b \in BindOutcomes : processCleanupJob(b)

SpecSweep == InitSweep /\ [][NextSweep]_vars

\* ------------------------------------------------ the bus and its clients

InitBus ==
    /\ cfg = DefaultCfg
    /\ budget = [rows |-> 0, calls |-> 0, closes |-> 0, ticks |-> 0,
                 fires |-> 0, destroys |-> 0, tampers |-> 0]
    /\ rule = [r \in RuleIds |-> NoRule]
    /\ connStatus = "connected"
    /\ sock = "open"
    /\ connecting = 0
    /\ mgr = OpenMgr
    /\ InitRest

NextBus ==
    \/ broadcast
    \/ \E w \in Consumers, keyOk \in BOOLEAN : WsOpen(w, keyOk)
    \/ \E w \in Consumers : WsClose(w)
    \/ \E w \in Consumers : WsBreak(w)

SpecBus == InitBus /\ [][NextBus]_vars

\* ------------------------------------------------- requests with media

InitMedia ==
    /\ cfg = DefaultCfg
    /\ budget = [rows |-> MaxMediaRows, calls |-> MaxMediaCalls,
                 closes |-> 0, ticks |-> 0, fires |-> 0, destroys |-> 0,
                 tampers |-> 0]
    /\ rule = [r \in RuleIds |-> NoRule]
    /\ connStatus = "connected"
    /\ sock = "open"
    /\ connecting = 0
    /\ mgr = OpenMgr
    /\ InitRest

\* The router validates a request before it calls the service.
NextMedia ==
    \/ \E u \in MediaUrls, t \in MediaTypes :
            /\ scheduleMessageSchema(u, t)
            /\ scheduleMessageMedia(1, "future", u, t)
    \/ ApiResume
    \/ \E i \in IntentIds, w \in EditWhen, u \in MediaUrls, t \in MediaTypes :
            /\ editMessageSchema(w, u, t)
            /\ editMessagePatch(i, w, u, t)

SpecMedia == InitMedia /\ [][NextMedia]_vars

\* ---------------------------------------------- shutdown of a busy process

\* main() has started everything; one immediate intent waits in the queue.
InitShutdown ==
    /\ cfg = DefaultCfg
    /\ budget = [rows |-> 0, calls |-> 0, closes |-> 0,
                 ticks |-> MaxShutTicks, fires |-> 0, destroys |-> MaxDestroys,
                 tampers |-> 0]
    /\ now = Clock0
    /\ msgs = [i \in IntentIds |->
                 IF i = 1 THEN [NoRow EXCEPT !.status = "pending",
                                             !.scheduledAt = ToDb(Clock0)]
                 ELSE NoRow]
    /\ jobs = [i \in IntentIds |->
                 IF i = 1 THEN [state |-> "delayed", attemptsMade |-> 0,
                                runAt |-> Clock0]
                 ELSE NoJob]
    /\ api = NoApi
    /\ worker = Idle
    /\ limiterUntil = 0
    /\ connStatus = "connected"
    /\ sock = "open"
    /\ reconnectTimer = FALSE
    /\ connecting = 0
    /\ providerCalls = [i \in IntentIds |-> 0]
    /\ failedEvents = [i \in IntentIds |-> 0]
    /\ sentLog = [prev |-> Null, last |-> Null, event |-> "none",
                  warnDay |-> Null, repeat |-> FALSE]
    /\ rule = [r \in RuleIds |-> NoRule]
    /\ rjob = [r \in RuleIds |-> NoJob]
    /\ mgr = OpenMgr
    /\ bus = NoBus
    /\ proc \in {NoProc, [NoProc EXCEPT !.tunnel = "open"]}
    /\ vault = NoVault
    /\ store = NoStore
    /\ InitSched

\* A closing worker takes no further job; an exited process does nothing.
NextShutdown ==
    \/ \E s \in Signals : Signal(s)
    \/ \E s \in Signals : ShutdownResume(s)
    \/ TunnelClosed
    \/ WorkerClosed
    \/ QueueClosed
    \/ \E i \in IntentIds :
            ~proc.exited /\ proc.workerSt = "open" /\ processSendJob(i)
    \/ \E k \in 0..(RandDen - 1) : ~proc.exited /\ SendResolved(k)
    \/ ~proc.exited /\ SleepDone
    \/ \E t \in Deadlines : ~proc.exited /\ Tick(t)

SpecShutdown == InitShutdown /\ [][NextShutdown]_vars

\* ------------------------------------------------------- rounds of the vault

InitVault ==
    /\ cfg = DefaultCfg
    /\ budget = [rows |-> 0, calls |-> 0, closes |-> 0, ticks |-> 0,
                 fires |-> 0, destroys |-> 0, tampers |-> 0]
    /\ rule = [r \in RuleIds |-> NoRule]
    /\ connStatus = "connected"
    /\ sock = "open"
    /\ connecting = 0
    /\ mgr = OpenMgr
    /\ now = Clock0
    /\ msgs = [i \in IntentIds |-> NoRow]
    /\ jobs = [i \in IntentIds |-> NoJob]
    /\ api = NoApi
    /\ worker = Idle
    /\ limiterUntil = 0
    /\ reconnectTimer = FALSE
    /\ providerCalls = [i \in IntentIds |-> 0]
    /\ failedEvents = [i \in IntentIds |-> 0]
    /\ sentLog = [prev |-> Null, last |-> Null, event |-> "none",
                  warnDay |-> Null, repeat |-> FALSE]
    /\ rjob = [r \in RuleIds |-> NoJob]
    /\ bus = NoBus
    /\ proc = NoProc
    /\ vault \in {[NoVault EXCEPT !.x = x, !.k = k] :
                    x \in Plaintexts, k \in MasterKeys}
    /\ store = NoStore
    /\ InitSched

NextVault ==
    \/ \E salt \in Salts, iv \in Ivs : VaultEncrypt(salt, iv)
    \/ \E how \in Hows, k2 \in MasterKeys : VaultDecrypt(how, k2)

SpecVault == InitVault /\ [][NextVault]_vars







\* ================================================================ claims

Exists(i) == msgs[i].status # "absent"

AllowedEdge(a, b) ==
    \/ a = b
    \/ <<a, b>> \in {<<"pending", "sent">>, <<"pending", "failed">>,
                     <<"pending", "cancelled">>, <<"sent", "delivered">>,
                     <<"failed", "pending">>}

\* C1: an intent's status changes only along pending->sent, pending->failed,
\* pending->cancelled, sent->delivered and failed->pending, the last only
\* in a retryMessage step.
C1_StatusEdges ==
    [][\A i \in IntentIds :
         Exists(i) =>
            /\ AllowedEdge(msgs[i].status, msgs'[i].status)
            /\ (msgs[i].status = "failed" /\ msgs'[i].status = "pending"
                  => retryMessage(i))]_vars

\* C2: a send job taken for an intent whose status is sent, delivered,
\* failed or cancelled makes no provider call and leaves the row as it is.
C2_IdempotentTerminal ==
    [][\A i \in IntentIds :
         (processSendJob(i) /\ msgs[i].status \in Terminal)
            => (worker'.pc # "sending" /\ msgs'[i] = msgs[i])]_vars

\* C3: once cancelMessage has committed cancelled, the status stays
\* cancelled and the worker starts no provider call for the intent, also
\* when the worker had already read the row.
C3_CancelWins ==
    [][\A i \in IntentIds :
         msgs[i].status = "cancelled"
            => /\ msgs'[i].status = "cancelled"
               /\ ~(worker.pc = "idle" /\ worker'.pc = "sending"
                    /\ worker'.id = i)]_vars

Transient == {"notconnected", "senderror"}

\* C6: an intent is failed for a transient reason only once its job has
\* used all its attempts, and message:failed was broadcast once for it.
C6_FailedAfterAllAttempts ==
    \A i \in IntentIds :
        (msgs[i].status = "failed" /\ msgs[i].failureReason \in Transient)
            => /\ jobs[i].state = "failed"
               /\ jobs[i].attemptsMade = JobAttempts
               /\ failedEvents[i] = 1

\* C7: once retryMessage has returned for an intent (it is pending again
\* after a failure and no service call is suspended), a job that will
\* process it is in the queue.
C7_RetryReenqueues ==
    \A i \in IntentIds :
        (msgs[i].status = "pending" /\ failedEvents[i] > 0 /\ api.op = "none")
            => jobs[i].state \in {"delayed", "active"}

\* C9: getSocket() is null whenever the status is not connected, and a send
\* job taken while it is not connected throws without a provider call.
C9_NotConnectedNoSend ==
    [][/\ (connStatus # "connected" => getSocket = "null")
       /\ \A i \in IntentIds :
            (processSendJob(i) /\ connStatus # "connected")
                => worker'.pc # "sending"]_vars

\* Rows sent or delivered whose stored sentAt, read back as an instant,
\* lies in the IST day of t.
SentInDay(t) ==
    {i \in IntentIds :
        /\ SentOrDelivered(msgs[i])
        /\ msgs[i].sentAt # Null
        /\ FromDb(msgs[i].sentAt) >= getTodayIST(t)
        /\ FromDb(msgs[i].sentAt) < getNextMidnightIST(t)}

\* C4: the number of intents sent or delivered in the current IST day never
\* exceeds the daily cap, for one-time and recurring sends alike.
C4_CapHonored == Cardinality(SentInDay(now)) <= DailyCap

\* C5: getSentTodayCount equals the number of stored intents with status
\* sent or delivered whose sentAt instant is in the current IST day.
C5_SentTodayExact == getSentTodayCount(msgs, now) = Cardinality(SentInDay(now))

ActiveJobs ==
    Cardinality({i \in IntentIds : jobs[i].state = "active"})
    + Cardinality({r \in RuleIds : rjob[r].state = "active"})

PaceFloor == Max(0, Min(cfg.min_delay_ms, cfg.max_delay_ms))

C10_ImmediateAtCapRejected ==
    [][\A c \in ContactIds, w \in SchedWhen :
         scheduleMessage(c, w)
            => /\ (isImmediate(w)
                   /\ Cardinality(SentInDay(now)) >= DailyCap)
                     => UNCHANGED <<msgs, api, jobs>>
               /\ (~isImmediate(w) /\ c = 1) => msgs' # msgs]_vars

\* C11: a bulk request whose immediate items outnumber the remaining daily
\* capacity (the cap less the intents sent today) persists no row and
\* enqueues no job; a bulk request that returns has recorded exactly the
\* items with an unknown contact in failed[] and scheduled every other one.
C11_BulkCapOrPerItem ==
    [][/\ \A items \in BulkRequests :
            (/\ bulkScheduleMessages(items)
             /\ ImmediateCount(items)
                    > DailyCap - Cardinality(SentInDay(now)))
                => UNCHANGED <<msgs, api, jobs>>
       /\ (api' # api /\ api'.op = "none" /\ api'.req # <<>>)
            => /\ api'.failed = {k \in 1..Len(api'.req) : api'.req[k].c # 1}
               /\ api'.scheduled = (1..Len(api'.req)) \ api'.failed]_vars

\* C12: cancelMessage on a pending intent sets its status to cancelled and,
\* once the call has completed, the intent has no job left in the queue;
\* cancelMessage on an absent or non-pending intent changes neither the
\* rows nor the queue.
C12_CancelRemovesJob ==
    [][/\ \A i \in IntentIds :
            cancelMessage(i)
               => IF msgs[i].status = "pending"
                  THEN msgs'[i].status = "cancelled" /\ jobs' = jobs
                  ELSE UNCHANGED <<msgs, jobs, api>>
       /\ (api.op = "remove" /\ ApiResume)
            => jobs'[api.id].state = "none"]_vars

\* C13: editMessage writes only to a row that is pending at the write and
\* leaves an absent or non-pending intent's row and job unchanged; when it
\* changes scheduledAt, rescheduleJob takes the intent's old job out of the
\* queue and goes on to add the one new job.
C13_EditReplacesJob ==
    [][/\ \A i \in IntentIds, w \in EditWhen :
            editMessage(i, w)
               => IF msgs[i].status = "pending"
                  THEN /\ msgs'[i].status = "pending"
                       /\ w # "none"
                            => /\ msgs'[i].scheduledAt = ToDb(SendAt(w))
                               /\ api'.delay = Max(0, SendAt(w) - now)
                  ELSE UNCHANGED <<msgs, jobs, api>>
       /\ (api.op = "reschedule" /\ ApiResume)
            => /\ jobs'[api.id].state = "none"
               /\ api' = [api EXCEPT !.op = "add"]]_vars

\* C14: a delivery ack moves the intent with that provider message id from
\* sent to delivered, stamping deliveredAt; an ack for an intent whose
\* status is not sent (a second ack among them) leaves the rows as they
\* are.
C14_AckIdempotent ==
    [][\A i \in IntentIds :
         DeliveryAck(i)
            => IF msgs[i].status = "sent"
               THEN /\ msgs'[i].status = "delivered"
                    /\ msgs'[i].deliveredAt = ToDb(now)
               ELSE UNCHANGED msgs]_vars

\* The auth state adapter alone: keys.set, keys.get, saveCreds and a new
\* adapter over the same table.
InitIdle ==
    /\ cfg = DefaultCfg
    /\ budget = [rows |-> 0, calls |-> 0, closes |-> 0, ticks |-> 0,
                 fires |-> 0, destroys |-> 0, tampers |-> 0]
    /\ rule = [r \in RuleIds |-> NoRule]
    /\ connStatus = "connected"
    /\ sock = "open"
    /\ connecting = 0
    /\ mgr = OpenMgr
    /\ InitRest

InitStore == InitIdle

NextStore ==
    \/ \E data \in DataSets : \E rnd \in [1..Len(data) -> Draws] :
           KeysSet(data, rnd)
    \/ \E type \in Categories : \E ids \in (SUBSET KeyIds) \ {{}} :
           KeysGet(type, ids)
    \/ \E v \in Values : CredsChange(v)
    \/ \E rnd \in Draws : saveCreds(rnd)
    \/ useSQLiteAuthState

SpecStore == InitStore /\ [][NextStore]_vars

\* Requests with media next to the worker that sends the intents.
InitEdit ==
    /\ cfg = DefaultCfg
    /\ budget = [rows |-> MaxEditRows, calls |-> MaxEditCalls,
                 closes |-> 0, ticks |-> MaxEditTicks, fires |-> 0,
                 destroys |-> 0, tampers |-> 0]
    /\ rule = [r \in RuleIds |-> NoRule]
    /\ connStatus = "connected"
    /\ sock = "open"
    /\ connecting = 0
    /\ mgr = OpenMgr
    /\ InitRest

NextEdit ==
    \/ \E u \in MediaUrls, t \in MediaTypes :
            /\ scheduleMessageSchema(u, t)
            /\ scheduleMessageMedia(1, "absent", u, t)
    \/ ApiResume
    \/ \E i \in IntentIds, w \in EditWhen, u \in MediaUrls, t \in MediaTypes :
            /\ editMessageSchema(w, u, t)
            /\ editMessagePatch(i, w, u, t)
    \/ \E i \in IntentIds : processSendJob(i)
    \/ \E k \in 0..(RandDen - 1) : SendResolved(k)
    \/ SendRejected
    \/ SleepDone
    \/ OnFailed
    \/ \E t \in Deadlines : Tick(t)

SpecEdit == InitEdit /\ [][NextEdit]_vars

\* -------------------------------------------- the schedules of the rules

CronTypes == {"daily", "weekly", "monthly", "yearly", "birthday"}

\* The schedule fields a request may carry, each one or undefined.
CronParams ==
    [sendHour : {Null, 18}, sendMinute : {Null, 30}, dayOfWeek : {Null, 5},
     dayOfMonth : {Null, 28, 29}, month : {Null, 3}]

NoMaxPatch == [given |-> FALSE, val |-> 0]

InitCron ==
    /\ cfg = DefaultCfg
    /\ budget = [rows |-> 0, calls |-> MaxCronCalls, closes |-> 0,
                 ticks |-> 0, fires |-> 0, destroys |-> 0, tampers |-> 0]
    /\ rule = [r \in RuleIds |-> NoRule]
    /\ connStatus = "connected"
    /\ sock = "open"
    /\ connecting = 0
    /\ mgr = OpenMgr
    /\ InitRest

NextCron ==
    \/ \E ty \in CronTypes, p \in CronParams :
            createRecurringRule(1, ty, 0, p)
    \/ \E r \in RuleIds, en \in {"undefined", "false"}, p \in CronParams :
            updateRecurringRule(r, NoMaxPatch, en, p)
    \/ \E c \in {1}, b \in Birthdays : syncBirthdayReminder(c, b)

SpecCron == InitCron /\ [][NextCron]_vars

\* --------------------------------------------- claims on the connection

TransientCodes == DisconnectCodes \ {401, 403, 440, 515}

\* The retry window of the manager has run out at this instant.
WindowOver ==
    /\ mgr.retryStartedAt # Null
    /\ now - mgr.retryStartedAt > maxRetryMs

C16_LoggedOutResetsToPairing ==
    [][/\ \A code \in {401, 403} :
            (\E j \in Jitter : ConnClose(code, j))
               => /\ mgr'.auth = 0
                  /\ mgr.auth # 0 => mgr.auth \in mgr'.deleted
                  /\ connStatus' = "pairing"
                  /\ mgr'.reconnectAttempt = 0
                  /\ mgr'.retryStartedAt = Null
                  /\ connecting' = connecting + 1
                  /\ sock' = "null"
                  /\ ~reconnectTimer'
                  /\ mgr'.creds \notin {mgr.creds, mgr.auth}
       /\ mgr'.auth \notin mgr'.deleted
       /\ mgr'.creds \notin mgr'.deleted]_vars

\* C16 witness: after a logout that deleted stored credentials the new
\* socket has opened and saved credentials that are not the deleted ones.
C16_Witness ==
    /\ mgr.lastCode \in {401, 403}
    /\ mgr.deleted # {}
    /\ sock = "open"
    /\ mgr.auth = mgr.creds
    /\ mgr.creds \notin mgr.deleted

\* C17: a close with code 515 arms the reconnect timer with delay zero and
\* leaves the credentials, reconnectAttempt and retryStartedAt as they were;
\* the timer's connect() is for a new socket, and a socket that is open has
\* had the onConnected callbacks run on it, the status being connected.
C17_RestartReconnectsAtOnce ==
    [][/\ (\E j \in Jitter : ConnClose(515, j))
            => /\ reconnectTimer'
               /\ mgr'.delay = 0
               /\ mgr'.timerAt = now
               /\ mgr'.auth = mgr.auth
               /\ mgr'.deleted = mgr.deleted
               /\ mgr'.reconnectAttempt = mgr.reconnectAttempt
               /\ mgr'.retryStartedAt = mgr.retryStartedAt
       /\ (TimerFire /\ mgr.lastCode = 515)
            => /\ connecting' = connecting + 1
               /\ mgr'.auth = mgr.auth
       /\ sock' = "open"
            => /\ mgr'.listener
               /\ connStatus' = "connected"
               /\ getSocket' = "open"]_vars

\* C17 witness: after a 515 close the zero-delay reconnect has opened a
\* socket, with the callbacks run and the stored credentials in use, at
\* the instant of the close.
C17_Witness ==
    /\ mgr.lastCode = 515
    /\ mgr.delay = 0
    /\ now = mgr.timerAt
    /\ sock = "open"
    /\ mgr.listener
    /\ connStatus = "connected"
    /\ mgr.auth # 0
    /\ mgr.creds = mgr.auth

\* C18: a transient close more than maxRetryMs after retryStartedAt clears
\* the credentials and resets to pairing without a reconnect timer; an
\* earlier one schedules a reconnect and keeps the start of the window; a
\* connection that opens resets reconnectAttempt and retryStartedAt.
C18_RetryWindowGivesUp ==
    [][/\ \A code \in TransientCodes :
            (\E j \in Jitter : ConnClose(code, j))
               => IF WindowOver
                  THEN /\ mgr'.auth = 0
                       /\ connStatus' = "pairing"
                       /\ ~reconnectTimer'
                       /\ connecting' = connecting + 1
                       /\ mgr'.reconnectAttempt = 0
                       /\ mgr'.retryStartedAt = Null
                  ELSE /\ reconnectTimer'
                       /\ connStatus' = "connecting"
                       /\ mgr'.auth = mgr.auth
                       /\ mgr'.retryStartedAt =
                             IF mgr.retryStartedAt = Null THEN now
                             ELSE mgr.retryStartedAt
       /\ ConnOpen
            => /\ mgr'.reconnectAttempt = 0
               /\ mgr'.retryStartedAt = Null]_vars

\* C18 witness: the manager has given up after a transient close: pairing,
\* connect() under way, the table empty and the counters reset.
C18_Witness ==
    /\ mgr.lastCode \in TransientCodes
    /\ connStatus = "pairing"
    /\ sock = "null"
    /\ connecting = 1
    /\ ~mgr.destroyed
    /\ mgr.retryStartedAt = Null
    /\ mgr.auth = 0
    /\ mgr.deleted # {}

\* C19: the k-th transient close in a row since reconnectAttempt was reset
\* schedules the reconnect after a delay between 0.8 and 1.2 times
\* min(base_delay_ms * 2^(k-1), max_delay_ms).
C19_BackoffBounds ==
    [][\A code \in TransientCodes :
         ((\E j \in Jitter : ConnClose(code, j)) /\ reconnectTimer')
            => LET k == mgr'.reconnectAttempt
                   cap == Min(cfg.reconnect.base_delay_ms * 2^(k - 1),
                              cfg.reconnect.max_delay_ms)
               IN  /\ k = mgr.reconnectAttempt + 1
                   /\ 10 * mgr'.delay >= 8 * cap
                   /\ 10 * mgr'.delay <= 12 * cap
                   /\ 10 * mgr'.delay <= 12 * cfg.reconnect.max_delay_ms
                   /\ mgr'.timerAt = now + mgr'.delay]_vars

\* C19 witness: the fourth transient close in a row, where the doubling
\* has passed max_delay_ms, scheduled with the largest jitter.
C19_Witness ==
    /\ reconnectTimer
    /\ mgr.lastCode \in TransientCodes
    /\ mgr.reconnectAttempt = 4
    /\ cfg.reconnect.base_delay_ms * 2^3 > cfg.reconnect.max_delay_ms
    /\ 10 * mgr.delay = 12 * cfg.reconnect.max_delay_ms

\* C20: destroy() leaves no reconnect timer and no socket and does not
\* touch the credential table; after it no timer is armed, no connect()
\* starts and no socket exists, and a further destroy() changes nothing.
C20_DestroyStops ==
    [][/\ destroy
            => /\ ~reconnectTimer'
               /\ sock' = "null"
               /\ connecting' = 0
               /\ mgr'.auth = mgr.auth
               /\ mgr'.deleted = mgr.deleted
       /\ mgr.destroyed
            => /\ ~reconnectTimer'
               /\ sock' = "null"
               /\ connecting' = 0
               /\ mgr'.auth = mgr.auth
       /\ (destroy /\ mgr.destroyed)
            => UNCHANGED <<sock, reconnectTimer, connStatus, connecting,
                           mgr, bus, proc, vault, store, sched>>]_vars

\* C20 witness: destroy() was called with a reconnect timer pending and
\* stored credentials, and then once more.
C20_Witness ==
    /\ mgr.destroyed
    /\ budget.destroys = 0
    /\ mgr.timerAt > now
    /\ ~reconnectTimer
    /\ sock = "null"
    /\ mgr.auth # 0

\* C21: when the connect() under way has failed to decrypt the stored
\* credentials, the handling of that failure empties the credential table
\* and resets to pairing with a new connect() under way: the process goes
\* on, and no reconnect is scheduled over the same ciphertext.
C21_DecryptFailureResetsToPairing ==
    [][(\E j \in Jitter : ConnectCatch(j))
          => /\ ~mgr'.exited
             /\ mgr'.auth = 0
             /\ connStatus' = "pairing"
             /\ ~reconnectTimer'
             /\ connecting' = 1]_vars


\* C22: a checkAndWarn() after a send broadcasts "reached" when the intents
\* sent in the current IST day number at least the daily cap, broadcasts a
\* warning only when they number at least floor(dailyCap * warnPct / 100), and
\* never broadcasts a second warning within the same IST day.
C22_WarnOnceThenReached ==
    [][(\/ \E k \in 0..(RandDen - 1) : SendResolved(k)
        \/ \E k \in 0..(RandDen - 1) : RecurringSendResolved(k))
          => LET n == Cardinality((SentInDay(now))')
             IN  /\ n >= DailyCap => sentLog'.event = "reached"
                 /\ sentLog'.event = "warning"
                      => /\ n >= (DailyCap * cfg.warn_threshold_pct) \div 100
                         /\ ~sentLog'.repeat]_vars


\* C23: each contact has at most one rule of type birthday, whatever sequence
\* of syncBirthdayReminder, createRecurringRule, updateRecurringRule and
\* deleteRecurringRule calls has run.
C23_BirthdayUnique ==
    \A c \in ContactIds :
        Cardinality({r \in RuleIds : rule[r].present /\ rule[r].contactId = c
                                     /\ rule[r].type = "birthday"}) <= 1

\* C24: a rule with maxOccurrences set never has an occurrenceCount above it,
\* across firings and updateRecurringRule calls that change maxOccurrences.
C24_CountWithinMax ==
    \A r \in RuleIds :
        rule[r].present /\ rule[r].maxOccurrences # 0
            => rule[r].occurrenceCount <= rule[r].maxOccurrences


C26_BroadcastIsolatesFailures ==
    [][broadcast
          => /\ ~bus'.raised
             /\ \A w \in Members(bus.clients) :
                   IF w \in bus.failing
                   THEN /\ w \notin Members(bus'.clients)
                        /\ bus'.inbox[w] = bus.inbox[w]
                   ELSE /\ w \in Members(bus'.clients)
                        /\ bus'.inbox[w] = bus.inbox[w] + 1
             /\ Members(bus'.clients) \subseteq Members(bus.clients)]_vars

\* A broadcast found a client whose send threw ahead of one whose send
\* succeeded: the first is gone, the second has the message.
C26_Witness ==
    /\ bus.n > 0
    /\ bus.removed # {}
    /\ bus.delivered # {}
    /\ \E w \in bus.removed, u \in bus.delivered : w < u
    /\ ~bus.raised


\* C27: every stored intent has its mediaType set exactly when its mediaUrl
\* is set, after a validated schedule request and after any validated edit.
C27_MediaTypeIffUrl ==
    \A i \in IntentIds :
        msgs[i].status # "absent"
            => (msgs[i].mediaType # "null" <=> msgs[i].mediaUrl # "null")


RECURSIVE WellFormed(_)
WellFormed(x) ==
    IF x = <<>> THEN TRUE
    ELSE IF Head(x) = "hi"
    THEN Len(x) >= 2 /\ x[2] = "lo" /\ WellFormed(SubSeq(x, 3, Len(x)))
    ELSE Head(x) # "lo" /\ WellFormed(Tail(x))

\* What C30 says of everything but the round trip: a decrypt with another
\* key, or of a string whose tag or ciphertext bytes were changed, fails,
\* and the strings of two encrypt calls have four parts and differ.
VaultRest ==
    /\ vault.how \in {"otherKey", "tag", "data"} => ~vault.out.ok
    /\ \A n \in 1..Len(vault.cts) : Len(vault.cts[n]) = 4
    /\ Len(vault.cts) >= 2 => vault.cts[1] # vault.cts[2]

C31_StoreRoundTrip ==
    [][/\ store'.op = "get" /\ store'.n # store.n =>
            LET g == store'.got
            IN  /\ DOMAIN g.data =
                       {i \in g.ids : store'.latest[<<g.category, i>>] # 0}
                /\ \A i \in DOMAIN g.data :
                       g.data[i] = store'.latest[<<g.category, i>>]
       /\ store'.op = "restore" /\ store'.n # store.n /\ store'.saved # 0 =>
            store'.restored = store'.saved]_vars

\* C32: every intent with status pending has a job that will process it:
\* its send job is delayed or active, or the service call that enqueues it
\* is under way, or the recurring-send job that inserted it has not ended.
C32_NoOrphanPending ==
    \A i \in IntentIds :
        msgs[i].status = "pending" =>
            \/ jobs[i].state \in {"delayed", "active"}
            \/ api.op \in {"add", "reschedule"} /\ api.id = i
            \/ /\ worker.name = "recurring-send"
               /\ worker.id = i
               /\ worker.pc \in {"sending", "failing"}

\* The rows of the occurrences of rule r.
RowsOf(r) ==
    {i \in IntentIds : msgs[i].status # "absent" /\ msgs[i].recurringRuleId = r}

\* C33: the firings of a rule have made no more Intent rows and no more
\* increments of occurrenceCount than there were firings (one row and one
\* increment per firing, however often its job is attempted), and a send
\* that succeeds increments occurrenceCount by exactly one.
C33_OneRowPerFiring ==
    [][/\ \A r \in RuleIds :
              /\ Cardinality((RowsOf(r))') <= MaxFires - budget'.fires
              /\ rule'[r].occurrenceCount <= MaxFires - budget'.fires
       /\ \A k \in 0..(RandDen - 1) :
              RecurringSendResolved(k) =>
                  rule'[worker.rule].occurrenceCount =
                      rule[worker.rule].occurrenceCount + 1]_vars

\* C34: when an intent's status becomes sent, the media handed to the
\* provider for it are the media its row holds.
C34_SentAsStored ==
    [][\A i \in IntentIds :
           msgs[i].status # "sent" /\ msgs'[i].status = "sent" =>
               /\ worker.id = i
               /\ msgs'[i].mediaUrl = worker.mediaUrl
               /\ msgs'[i].mediaType = worker.mediaType]_vars

\* C35: no socket the manager made is live apart from the one this.sock
\* refers to: none was still live when a later one was made, and a live
\* socket is never dropped from this.sock.
C35_OneLiveSocket ==
    /\ mgr.stray = 0
    /\ mgr.sockLive <=> sock \in {"opening", "open"}

\* A socket made after an earlier one closed is live.
C35_Witness ==
    /\ mgr.lastCode # 0
    /\ mgr.sockLive
    /\ sock \in {"opening", "open"}

\* C36: while the manager is in use (not destroyed), status connected
\* means that the socket this.sock refers to has opened and has not
\* closed since.
C36_ConnectedMeansOpen ==
    connStatus = "connected" /\ ~mgr.destroyed => sock = "open" /\ mgr.sockLive

\* C37: when the job of a firing completes, a rule whose occurrenceCount
\* has reached its maxOccurrences is disabled; and a job that starts on a
\* disabled rule inserts no row and calls the provider for none.
C37_LimitDisables ==
    [][\A r \in RuleIds :
           /\ rjob[r].state = "active" /\ rjob'[r].state = "completed"
              /\ rule'[r].maxOccurrences # 0
              /\ rule'[r].occurrenceCount >= rule'[r].maxOccurrences
                  => ~rule'[r].enabled
           /\ rjob[r].state = "delayed" /\ rjob'[r].state # "delayed"
              /\ ~rule[r].enabled
                  => msgs' = msgs /\ providerCalls' = providerCalls]_vars

\* C38: a rule that is not enabled has no scheduler registered in the
\* queue, and an enabled rule has one, after any sequence of creations,
\* updates, deletions, birthday syncs and firings.
C38_SchedulerIffEnabled ==
    \A r \in RuleIds :
        rule[r].present => (sched[r].registered <=> rule[r].enabled)

\* C39: an update whose request names only some schedule fields leaves the
\* other fields of the rule's cron expression as they were, and the
\* scheduler carries the resulting expression; an update that names no
\* schedule field leaves the cron expression unchanged.
C39_PartialPatchKeepsFields ==
    [][\A r \in RuleIds, p \in CronParams :
           updateRecurringRule(r, NoMaxPatch, "undefined", p) =>
               LET old == rule[r].cronExpression
                   new == rule'[r].cronExpression
               IN  /\ p.sendMinute = Null => new[2] = old[2]
                   /\ p.sendHour = Null => new[3] = old[3]
                   /\ p.dayOfMonth = Null => new[4] = old[4]
                   /\ p.month = Null => new[5] = old[5]
                   /\ p.dayOfWeek = Null => new[6] = old[6]
                   /\ p = NoParams => new = old
                   /\ sched'[r].pattern = new]_vars

\* C40: the cron expression of a created rule is 0 m h * * * for daily,
\* 0 m h * * dow for weekly, 0 m h d * * for monthly with L for d exactly
\* when the requested day is greater than 28, and 0 m h d mon * for yearly
\* and birthday, with h the default send hour and m 0 where the request
\* names none; the birthday 03-15 gives its rule 0 0 9 15 3 *.
C40_CronMapping ==
    [][/\ \A ty \in CronTypes, p \in CronParams :
            (\E r \in RuleIds : /\ ~rule[r].present /\ rule'[r].present
                                /\ rule'[r].type = ty)
            /\ createRecurringRule(1, ty, 0, p) =>
                LET e == rule'[NewRule].cronExpression
                    h == IF p.sendHour = Null THEN DefaultSendHour
                         ELSE p.sendHour
                    m == IF p.sendMinute = Null THEN 0 ELSE p.sendMinute
                    d == p.dayOfMonth
                IN  /\ Len(e) = 6
                    /\ e[1] = Num(0) /\ e[2] = Num(m) /\ e[3] = Num(h)
                    /\ ty = "daily" =>
                           e[4] = Star /\ e[5] = Star /\ e[6] = Star
                    /\ ty = "weekly" =>
                           /\ e[4] = Star /\ e[5] = Star /\ e[6].k = "num"
                           /\ p.dayOfWeek # Null => e[6] = Num(p.dayOfWeek)
                    /\ ty = "monthly" =>
                           /\ e[5] = Star /\ e[6] = Star
                           /\ e[4] = Last <=> (d # Null /\ d > 28)
                           /\ d # Null /\ d <= 28 => e[4] = Num(d)
                           /\ e[4].k \in {"num", "L"}
                    /\ ty \in {"yearly", "birthday"} =>
                           /\ e[4].k = "num" /\ e[5].k = "num" /\ e[6] = Star
                           /\ d # Null => e[4] = Num(d)
                           /\ p.month # Null => e[5] = Num(p.month)
       /\ syncBirthdayReminder(1, <<"0", "3", "-", "1", "5">>) =>
            \E r \in RuleIds :
                /\ rule'[r].type = "birthday" /\ rule'[r].contactId = 1
                /\ rule'[r].enabled
                /\ rule'[r].cronExpression =
                       <<Num(0), Num(0), Num(9), Num(15), Num(3), Star>>
                /\ sched'[r].pattern = rule'[r].cronExpression]_vars

\* A monthly rule asked for the 29th runs on the last day, beside the
\* birthday rule of 03-15.
C40_Witness ==
    \E r, q \in RuleIds :
        /\ rule[r].present /\ rule[r].type = "monthly"
        /\ rule[r].cronExpression[4] = Last
        /\ rule[q].present /\ rule[q].type = "birthday"
        /\ rule[q].cronExpression =
               <<Num(0), Num(0), Num(9), Num(15), Num(3), Star>>

====
